---- MODULE Spec2Model ----
(***************************************************************************)
(* A model of the 3scale-sync reconciliation engine (src/sync.py and       *)
(* src/resources/*.py): one declarative configuration is reconciled        *)
(* against the state of the remote control plane, product by product.      *)
(*                                                                         *)
(* Names, patterns and host names are sequences of tokens, so that the     *)
(* string conversions of the code (replace, concatenation, split) are      *)
(* computed rather than assumed.  The empty sequence stands for None / ''. *)
(***************************************************************************)
EXTENDS Integers, Sequences, FiniteSets, TLC

VARIABLES
    config,     \* the desired state handed to the program (never mutated)
    remote,     \* the state of the control plane
    pc,         \* position of the program
    run,        \* number of the current program run
    pi,         \* index of the product sync_config is at
    ai,         \* index of the application sync_applications is at
    bi,         \* index of the backend sync_backends is at
    accounts,   \* account list fetched once by sync_config
    usages,     \* backend-usage list fetched once by sync_backends
    product,    \* the canonical product held by sync_product
    calls,      \* remote calls issued by the current run, in order
    status,     \* per product of the current run: pending, running, ok, failed
    error,      \* the exception that ended the current run, "" if none
    prev,       \* what the previous run left: its status, error and calls
    workers,    \* the worker processes of a parallel run, one per product
    reported,   \* the duplicates Config.validate logged in the current run
    argv,       \* the command line: whether --delete was given
    answer      \* what the operator typed at the prompt of --delete, empty before

vars == <<config, remote, pc, run, pi, ai, bi, accounts, usages, product,
          calls, status, error, prev, workers, reported, argv, answer>>

-----------------------------------------------------------------------------
(* Bounds of the model *)

MaxRuns == 2          \* successive runs of the program on one desired state
MaxProducts == 2      \* products declared in one configuration

-----------------------------------------------------------------------------
(* Generic helpers *)

None == <<>>

Range(s) == {s[i] : i \in DOMAIN s}

RECURSIVE SortById(_)
SortById(S) ==
    IF S = {} THEN <<>>
    ELSE LET m == CHOOSE x \in S : \A y \in S : x.id <= y.id
         IN  <<m>> \o SortById(S \ {m})

\* str.replace('-', '_').replace(' ', '_')
SystemName(s) == [i \in 1..Len(s) |-> IF s[i] \in {"-", " "} THEN "_" ELSE s[i]]

\* Product.__init__ / Backend.__init__ / ApplicationPlan.__init__: the
\* system_name is derived from the name unless one is given.
InitSystemName(system_name, name) ==
    IF system_name = None /\ name # None THEN SystemName(name) ELSE system_name

-----------------------------------------------------------------------------
(* The call log *)

Entry(step, op, kind, args) == [step |-> step, op |-> op, kind |-> kind, pi |-> pi, args |-> args]

\* The calls that read the control plane
Reads == {"list", "fetch"}

\* A reconciler in progress: the remote state, the log, the pending exception
\* and the value it returns.
St(r, log) == [r |-> r, log |-> log, err |-> "", msg |-> None, ret |-> None]
Log(S, e) == [S EXCEPT !.log = Append(@, e)]
Raise(S, exc) == [S EXCEPT !.err = exc]
RaiseWith(S, exc, msg) == [S EXCEPT !.err = exc, !.msg = msg]
Ret(S, v) == [S EXCEPT !.ret = v]
Ok(S) == S.err = ""

-----------------------------------------------------------------------------
(* Config.validate, src/config.py *)

RECURSIVE Split(_, _)
\* str.split(sep): the pieces between the separators
Split(s, sep) ==
    IF \A i \in DOMAIN s : s[i] # sep THEN <<s>>
    ELSE LET k == CHOOSE i \in DOMAIN s : s[i] = sep /\ \A j \in 1..(i - 1) : s[j] # sep
         IN  <<SubSeq(s, 1, k - 1)>> \o Split(SubSeq(s, k + 1, Len(s)), sep)

\* Tokens that are not a run of [a-zA-Z0-9]
NonAlnum == {"-", ".", ":", " ", "!", "_", "/"}
IsAlnum(t) == t \notin NonAlnum

\* One label of the regular expression of Config._is_fqdn:
\* [a-zA-Z0-9] | [a-zA-Z0-9][a-zA-Z0-9\-]*[a-zA-Z0-9]
IsLabel(l) ==
    /\ l # <<>>
    /\ IsAlnum(l[1])
    /\ IsAlnum(l[Len(l)])
    /\ \A i \in DOMAIN l : IsAlnum(l[i]) \/ l[i] = "-"

\* Config._is_fqdn: labels separated by dots
IsFqdn(hostname) == \A l \in Range(Split(hostname, ".")) : IsLabel(l)

\* A host name that keeps its port
Hostname_with_port(url) == url.netloc

\* url.netloc.split(':')[0]
Hostname(url) == Split(url.netloc, ":")[1]

RECURSIVE Flatten(_)
Flatten(ss) == IF ss = <<>> THEN <<>> ELSE Head(ss) \o Flatten(Tail(ss))

\* A duplicate test that needs more than two values
HasDuplicates_over_two(xs) == Len(xs) > 2 /\ Len(xs) # Cardinality(Range(xs))
HasDuplicates(xs) == Len(xs) > 1 /\ Len(xs) # Cardinality(Range(xs))

RECURSIVE CounterItems(_)
\* collections.Counter(xs).items(): each value once, in the order of its first
\* occurrence, with the number of its occurrences
CounterItems(xs) ==
    IF xs = <<>> THEN <<>>
    ELSE <<[x |-> Head(xs), n |-> Len(SelectSeq(xs, LAMBDA y : y = Head(xs)))]>>
         \o CounterItems(SelectSeq(Tail(xs), LAMBDA y : y # Head(xs)))

\* A duplicate list that stops at the first duplicated value
Duplicates_first_only(xs) ==
    LET items == SelectSeq(CounterItems(xs), LAMBDA item : item.n > 1)
    IN  IF items = <<>> THEN <<>> ELSE <<items[1].x>>
\* [x for x, n in collections.Counter(xs).items() if n > 1]
Duplicates(xs) ==
    LET items == SelectSeq(CounterItems(xs), LAMBDA item : item.n > 1)
    IN  [k \in DOMAIN items |-> items[k].x]

BackendIds(products) == Flatten([i \in DOMAIN products |-> [j \in DOMAIN products[i].backends |-> products[i].backends[j].id]])
ApplicationNames(products) == Flatten([i \in DOMAIN products |-> [j \in DOMAIN products[i].applications |-> products[i].applications[j].name]])
BackendPaths(p) == [j \in DOMAIN p.backends |-> p.backends[j].path]

\* Config.validate: the AssertionError it raises, "" when the configuration
\* is accepted.  The checks run in the order of the code.
\* A validation that does not look at the backend host names
Validate_without_hostnames(products) ==
    IF HasDuplicates([i \in DOMAIN products |-> products[i].shortName])
    THEN "Product short names are not unique"
    ELSE IF HasDuplicates(BackendIds(products))
    THEN "Backend ids are not unique"
    ELSE IF HasDuplicates(ApplicationNames(products))
    THEN "Application names are not unique"
    ELSE IF \E i \in DOMAIN products : HasDuplicates(BackendPaths(products[i]))
    THEN "Backend paths are not unique"
    ELSE ""

Validate(products) ==
    IF HasDuplicates([i \in DOMAIN products |-> products[i].shortName])
    THEN "Product short names are not unique"
    ELSE IF HasDuplicates(BackendIds(products))
    THEN "Backend ids are not unique"
    ELSE IF HasDuplicates(ApplicationNames(products))
    THEN "Application names are not unique"
    ELSE IF \E i \in DOMAIN products : HasDuplicates(BackendPaths(products[i]))
    THEN "Backend paths are not unique"
    ELSE IF \E i \in DOMAIN products : \E j \in DOMAIN products[i].backends :
                ~IsFqdn(Hostname(products[i].backends[j].privateBaseURL))
    THEN "Backend privateBaseURL does not contain a valid hostname"
    ELSE ""

\* The list Config.validate logs as "Duplicated: ..." before it raises: that
\* of the first uniqueness check that fails, none for a host name
Validate_duplicates(products) ==
    IF HasDuplicates([i \in DOMAIN products |-> products[i].shortName])
    THEN Duplicates([i \in DOMAIN products |-> products[i].shortName])
    ELSE IF HasDuplicates(BackendIds(products))
    THEN Duplicates(BackendIds(products))
    ELSE IF HasDuplicates(ApplicationNames(products))
    THEN Duplicates(ApplicationNames(products))
    ELSE IF \E i \in DOMAIN products : HasDuplicates(BackendPaths(products[i]))
    THEN LET first == CHOOSE i \in DOMAIN products :
                          /\ HasDuplicates(BackendPaths(products[i]))
                          /\ \A j \in 1..(i - 1) : ~HasDuplicates(BackendPaths(products[j]))
         IN  Duplicates(BackendPaths(products[first]))
    ELSE <<>>

-----------------------------------------------------------------------------
(* Desired states the model draws from *)

Env == <<"dev">>

Url(netloc) == [scheme |-> "https", netloc |-> netloc]

BackendConfig(id, netloc, path) == [id |-> id, privateBaseURL |-> Url(netloc), path |-> path]
ApplicationConfig(account, name, client_id) ==
    [account |-> account, name |-> name, client_id |-> client_id, client_secret |-> <<"secret">>]
MappingConfig(method, pattern) == [method |-> method, pattern |-> pattern]
\* A mapping found in the OpenAPI document: ProxyMapping(http_method, pattern, delta=1)
OpenApiMapping(method, pattern) == [http_method |-> method, pattern |-> pattern]
\* oidcFlows: None, or a dict holding some of the four flags ("unset" = key absent)
FlowKeys == {"directAccessGrants", "implicitFlow", "serviceAccounts", "standardFlow"}
NoFlows == [present |-> FALSE, flags |-> [k \in FlowKeys |-> "unset"]]
Flows(set, value) == [present |-> TRUE, flags |-> [k \in FlowKeys |-> IF k \in set THEN value ELSE "unset"]]
APIConfig(base, authType, flows) ==
    [publicBasePath |-> base, authType |-> authType, issuerURL |-> <<"issuer">>,
     issuerType |-> <<"keycloak">>, credentialsLocation |-> <<"headers">>, oidcFlows |-> flows]

ProductConfig(name, shortName, description, api, policies, backends, applications, openapi, mappings) ==
    [name |-> name, shortName |-> shortName, description |-> description, version |-> <<"1">>,
     api |-> api, policiesPath |-> policies, backends |-> backends, applications |-> applications,
     openapi |-> openapi, mappings |-> mappings,
     stagingPublicURL |-> <<"stg">>, productionPublicURL |-> <<"prod">>]

ShortA == <<"p", "-", "a">>
ShortB == <<"p", " ", "b">>
HostOk == <<"api", ".", "example", ".", "com", ":", "8443">>
HostBad == <<"not", " ", "a", " ", "host", "!">>
HostHyphen == <<"my", "-", "api", ".", "example", ".", "com">>
HostLeadingHyphen == <<"-", "api", ".", "example", ".", "com">>
HostTrailingDot == <<"api", ".", "example", ".">>
B1 == BackendConfig(<<"b", "-", "1">>, HostOk, <<"/b1">>)
B2 == BackendConfig(<<"b2">>, HostHyphen, <<"/b2">>)
B1SamePath == BackendConfig(<<"b3">>, HostOk, <<"/b1">>)
BBadHost == BackendConfig(<<"b4">>, HostBad, <<"/b4">>)
B1SameId == BackendConfig(<<"b", "-", "1">>, HostOk, <<"/b5">>)
GetFoo == <<"/v1", "/foo", "$">>
BasePath == <<"/api">>
Policies == [path |-> <<"policies.json">>, doc |-> <<"cors", "apicast">>]
NoPolicies == [path |-> None, doc |-> <<>>]

\* A minimal product, a product using every reconciler, one with two
\* applications and two declared mappings; products that break one of the
\* rules of Config.validate alone or next to another product; one whose
\* authType is none of the four known ones.
A0 == ProductConfig(<<"Alpha">>, ShortA, <<"descA">>, APIConfig(BasePath, "app_key", NoFlows),
                    NoPolicies, <<>>, <<>>, <<>>, <<>>)
A1 == ProductConfig(<<"Alpha">>, ShortA, <<"descA">>,
                    APIConfig(BasePath, "oidc", Flows({"standardFlow"}, "true")),
                    Policies, <<B1>>, <<ApplicationConfig(<<"u1">>, None, <<"cid1">>)>>,
                    <<OpenApiMapping("GET", <<"/foo", "$">>)>>, <<>>)
A2 == ProductConfig(<<"Alpha">>, ShortA, <<"descA">>, APIConfig(BasePath, "app_id_key", NoFlows),
                    NoPolicies, <<>>,
                    <<ApplicationConfig(<<"u1">>, <<"app1">>, <<"cid1">>),
                      ApplicationConfig(<<"u2">>, None, None)>>,
                    <<>>, <<MappingConfig("GET", GetFoo), MappingConfig("POST", GetFoo)>>)
A3 == ProductConfig(<<"Alpha">>, ShortA, <<"descA">>, APIConfig(BasePath, "app_key", NoFlows),
                    NoPolicies, <<B1, B1SamePath>>, <<>>, <<>>, <<>>)
A4 == ProductConfig(<<"Alpha">>, ShortA, <<"descA">>, APIConfig(BasePath, "app_key", NoFlows),
                    NoPolicies, <<BBadHost>>, <<>>, <<>>, <<>>)
A5 == ProductConfig(<<"Alpha">>, ShortA, <<"descA">>, APIConfig(BasePath, "app_key", NoFlows),
                    NoPolicies, <<B1, B1SameId>>, <<>>, <<>>, <<>>)
A6 == ProductConfig(<<"Alpha">>, ShortA, <<"descA">>, APIConfig(BasePath, "app_key", NoFlows),
                    NoPolicies, <<BackendConfig(<<"b6">>, HostLeadingHyphen, <<"/b6">>)>>, <<>>, <<>>, <<>>)
A7 == ProductConfig(<<"Alpha">>, ShortA, <<"descA">>, APIConfig(BasePath, "app_key", NoFlows),
                    NoPolicies, <<BackendConfig(<<"b7">>, HostTrailingDot, <<"/b7">>)>>, <<>>, <<>>, <<>>)
A8 == ProductConfig(<<"Alpha">>, ShortA, <<"descA">>, APIConfig(BasePath, "basic", NoFlows),
                    NoPolicies, <<>>, <<ApplicationConfig(<<"u1">>, <<"app1">>, <<"cid1">>)>>, <<>>, <<>>)
\* The mapping GET /api/foo$ twice: derived from OpenAPI and declared in the
\* configuration
A9 == ProductConfig(<<"Alpha">>, ShortA, <<"descA">>, APIConfig(BasePath, "app_key", NoFlows),
                    NoPolicies, <<>>, <<>>, <<OpenApiMapping("GET", <<"/foo", "$">>)>>,
                    <<MappingConfig("GET", BasePath \o <<"/foo", "$">>)>>)
\* Product Alpha after backend b-1 was taken out of its configuration and
\* backend b3 was declared at the path b-1 had; oidcFlows is there and sets
\* none of the four flags
A10 == ProductConfig(<<"Alpha">>, ShortA, <<"descA">>, APIConfig(BasePath, "app_key", Flows({}, "true")),
                     NoPolicies, <<B1SamePath>>, <<>>, <<>>, <<>>)
B0 == ProductConfig(<<"Beta">>, ShortB, <<"descB">>, APIConfig(BasePath, "oauth", NoFlows),
                    NoPolicies, <<B2>>, <<ApplicationConfig(<<"u2">>, <<"app2">>, None)>>,
                    <<>>, <<MappingConfig("GET", GetFoo)>>)
\* A product whose short name and backend id differ from those of A1 by a
\* space in the place of the hyphen
C0 == ProductConfig(<<"Gamma">>, <<"p", " ", "a">>, <<"descC">>, APIConfig(BasePath, "app_key", NoFlows),
                    NoPolicies, <<BackendConfig(<<"b", " ", "1">>, HostHyphen, <<"/b9">>)>>, <<>>, <<>>, <<>>)
\* Product Beta with one application that omits its name
B4 == ProductConfig(<<"Beta">>, ShortB, <<"descB">>, APIConfig(BasePath, "app_key", NoFlows),
                    NoPolicies, <<>>, <<ApplicationConfig(<<"u2">>, None, None)>>, <<>>, <<>>)
\* Product Beta with the backend b-1, an application app1 and one that omits
\* its name
B3 == ProductConfig(<<"Beta">>, ShortB, <<"descB">>, APIConfig(BasePath, "oauth", NoFlows),
                    NoPolicies, <<B1>>,
                    <<ApplicationConfig(<<"u2">>, <<"app1">>, None), ApplicationConfig(<<"u2">>, None, None)>>,
                    <<>>, <<>>)

ProductPool == {A0, A1, A2, A3, A4, A5, A6, A7, A8, A9, A10, B0, B3, B4, C0}

\* Config(environment, products): every sequence of at most MaxProducts
\* products of the pool, valid or not.
Configs ==
    {[environment |-> Env, products |-> ps] :
        ps \in UNION {[1..n -> ProductPool] : n \in 1..MaxProducts}}

-----------------------------------------------------------------------------
(* The control plane: entities and the states the model starts it in *)

DefaultProxy ==
    [credentials_location |-> <<"query">>, oidc_issuer_endpoint |-> None, oidc_issuer_type |-> None,
     sandbox_endpoint |-> None, endpoint |-> None]
DefaultOidc == [k \in FlowKeys |-> "false"]
DefaultPolicies == <<"apicast">>

RemoteProduct(id, system_name, name, description) ==
    [id |-> id, system_name |-> system_name, name |-> name, description |-> description,
     backend_version |-> "1", proxy |-> DefaultProxy, oidc |-> DefaultOidc, policies |-> DefaultPolicies]
RemoteAccount(id, username) == [id |-> id, username |-> username, org_name |-> username]
RemotePlan(id, service_id, name, system_name) ==
    [id |-> id, service_id |-> service_id, name |-> name, system_name |-> system_name]
RemoteApplication(id, name, service_id, account_id, plan_id, client_id, client_secret, description) ==
    [id |-> id, name |-> name, service_id |-> service_id, account_id |-> account_id, plan_id |-> plan_id,
     client_id |-> client_id, client_secret |-> client_secret, description |-> description]
RemoteBackend(id, name, system_name, description, private_endpoint) ==
    [id |-> id, name |-> name, system_name |-> system_name, description |-> description,
     private_endpoint |-> private_endpoint]
RemoteUsage(id, service_id, backend_id, path) ==
    [id |-> id, service_id |-> service_id, backend_id |-> backend_id, path |-> path]
RemoteMapping(id, service_id, http_method, pattern, metric_id) ==
    [id |-> id, service_id |-> service_id, http_method |-> http_method, pattern |-> pattern,
     metric_id |-> metric_id]

Remote(products, accs, plans, applications, backends, us, mappings, nextId) ==
    [products |-> products, accounts |-> accs, plans |-> plans, applications |-> applications,
     backends |-> backends, usages |-> us, mappings |-> mappings, nextId |-> nextId]

\* f"{environment}_{product_system_name}_v{version}_Application"
DefaultApplicationName(environment, system_name, version) ==
    environment \o <<"_">> \o system_name \o <<"_", "v">> \o version \o <<"_", "Application">>
\* f"{environment}_{product_system_name}_v{version}_AppPlan"
ApplicationPlanName(environment, system_name, version) ==
    environment \o <<"_">> \o system_name \o <<"_", "v">> \o version \o <<"_", "AppPlan">>
\* f"{environment}_{backend_config.id}_backend"
BackendName(environment, id) == environment \o <<"_">> \o id \o <<"_", "backend">>

SysA == SystemName(ShortA)
SysB == SystemName(ShortB)
U1 == RemoteAccount(1, <<"u1">>)
U2 == RemoteAccount(2, <<"u2">>)
PlanA(id) == RemotePlan(id, 3, ApplicationPlanName(Env, SysA, <<"1">>),
                        SystemName(ApplicationPlanName(Env, SysA, <<"1">>)))
BackendB1(id, endpoint) ==
    RemoteBackend(id, BackendName(Env, B1.id), SystemName(BackendName(Env, B1.id)), <<"descA">>, endpoint)

\* Nothing but the two accounts.
R0 == Remote({}, {U1, U2}, {}, {}, {}, {}, {}, 3)
\* A tenant without accounts.
R1 == Remote({}, {}, {}, {}, {}, {}, {}, 1)
\* Product A as a previous sync of A1 left it, with one extra mapping rule.
R2 == Remote({RemoteProduct(3, SysA, <<"Alpha">>, <<"descA">>)}, {U1, U2}, {PlanA(4)},
             {RemoteApplication(5, DefaultApplicationName(Env, SysA, <<"1">>), 3, 1, 4,
                                <<"cid1">>, <<"secret">>, <<"descA">>)},
             {BackendB1(6, Url(HostOk))}, {RemoteUsage(7, 3, 6, <<"/b1">>)},
             {RemoteMapping(8, 3, "GET", GetFoo, 3),
              RemoteMapping(9, 3, "GET", <<"/v1", "/bar", "$">>, 3)}, 10)
\* Product A under an older name, with a stale application, the application
\* app1, the implicit flow switched on, and a backend registered with another
\* endpoint and not yet attached.
R3 == Remote({[RemoteProduct(3, SysA, <<"Old", " ", "Alpha">>, <<"descA">>)
                  EXCEPT !.oidc = [DefaultOidc EXCEPT !.implicitFlow = "true"]]}, {U1, U2}, {PlanA(4)},
             {RemoteApplication(5, <<"old">>, 3, 1, 4, <<"cid0">>, <<"secret">>, <<"descA">>),
              RemoteApplication(6, <<"app1">>, 3, 1, 4, <<"cid9">>, <<"secret">>, <<"descA">>)},
             {BackendB1(7, Url(<<"old", ".", "example", ".", "com">>))}, {}, {}, 8)
\* Only product B, which owns an application named app1.
R4 == Remote({RemoteProduct(3, SysB, <<"Beta">>, <<"descB">>)}, {U1, U2},
             {RemotePlan(4, 3, <<"planB">>, <<"planB">>)},
             {RemoteApplication(5, <<"app1">>, 3, 2, 4, <<"cid7">>, <<"secret">>, <<"descB">>)},
             {}, {}, {}, 6)

RemotePool == {R0, R1, R2, R3, R4}

-----------------------------------------------------------------------------
(* src/resources: the calls of each resource class.  Every operator takes  *)
(* the reconciler state S and returns it with the remote state changed,    *)
(* the calls logged, the exception raised (err) and the value returned     *)
(* (ret; an Optional is the empty set or a singleton).  An exception that  *)
(* reports an answer of the control plane that is not a success is         *)
(* "RemoteError", whatever its Python class; the others keep their class.  *)

The(set) == CHOOSE x \in set : \A y \in set : x.id <= y.id
First(set) == IF set = {} THEN {} ELSE {The(set)}
NoArgs == [all |-> TRUE]
FreshId(S) == S.r.nextId
Bump(r) == [r EXCEPT !.nextId = @ + 1]

\* Product.fetch: the first service of client.services.list() with the system_name
Product_fetch(S, step, system_name) ==
    Ret(Log(S, Entry(step, "list", "product", [system_name |-> system_name])),
        First({p \in S.r.products : p.system_name = system_name}))

\* Product.update: PUT services/{id} with params, then fetch
Product_update(S, step, self, params) ==
    LET changed == [self EXCEPT !.name = params.name, !.description = params.description]
        S1 == Log(S, Entry(step, "update", "product", [id |-> self.id, params |-> params]))
        S2 == [S1 EXCEPT !.r.products = (@ \ {self}) \cup {changed}]
    IN  Product_fetch(S2, step, self.system_name)

\* A Product.create that does not look for the product first
Product_create_unconditional(S, step, self) ==
    LET new == RemoteProduct(FreshId(S), self.system_name, self.name, self.description)
        S2 == Log(S, Entry(step, "create", "product",
                           [name |-> self.name, system_name |-> self.system_name,
                            description |-> self.description, deployment_option |-> "self_managed"]))
        S3 == [S2 EXCEPT !.r = Bump([@ EXCEPT !.products = @ \cup {new}])]
    IN  Ret(S3, {new})

\* Product.create(client): ignore_if_exists defaults to True
Product_create(S, step, self) ==
    LET S1 == Product_fetch(S, step, self.system_name)
        new == RemoteProduct(FreshId(S1), self.system_name, self.name, self.description)
        S2 == Log(S1, Entry(step, "create", "product",
                            [name |-> self.name, system_name |-> self.system_name,
                             description |-> self.description, deployment_option |-> "self_managed"]))
        S3 == [S2 EXCEPT !.r = Bump([@ EXCEPT !.products = @ \cup {new}])]
    IN  IF S1.ret # {} THEN S1 ELSE Product_fetch(S3, step, self.system_name)

\* Account.list
Account_list(S, step) ==
    Ret(Log(S, Entry(step, "list", "account", NoArgs)), SortById(S.r.accounts))

\* Account.fetch: the first account whose org_name is the name asked for
Account_fetch(S, step, system_name) ==
    LET S1 == Account_list(S, step)
    IN  Ret(S1, First({a \in Range(S1.ret) : a.org_name = system_name}))

\* An Account.create whose account takes the place of the accounts there are
Account_create_replacing(S, step, username) ==
    LET S1 == Log(S, Entry(step, "create", "account", [username |-> username]))
        new == RemoteAccount(FreshId(S1), username)
        S2 == [S1 EXCEPT !.r = Bump([@ EXCEPT !.accounts = {new}])]
    IN  IF username = None THEN Raise(S, "ValueError")
        ELSE IF \E a \in S.r.accounts : a.username = username THEN Raise(S1, "RemoteError")
        ELSE Account_fetch(S2, step, username)

\* Account.create: client.accounts.create, then fetch.  The control plane
\* refuses a username that is taken.
Account_create(S, step, username) ==
    LET S1 == Log(S, Entry(step, "create", "account", [username |-> username]))
        new == RemoteAccount(FreshId(S1), username)
        S2 == [S1 EXCEPT !.r = Bump([@ EXCEPT !.accounts = @ \cup {new}])]
    IN  IF username = None THEN Raise(S, "ValueError")
        ELSE IF \E a \in S.r.accounts : a.username = username THEN Raise(S1, "RemoteError")
        ELSE Account_fetch(S2, step, username)

RECURSIVE ApplicationListing(_, _, _)
\* the loop of Application.list over the accounts: one GET per account
ApplicationListing(S, step, accs) ==
    IF accs = <<>> THEN S
    ELSE LET acc == Head(accs)
             S1 == Log(S, Entry(step, "list", "application", [account |-> acc.username]))
             found == SortById({a \in S.r.applications : a.account_id = acc.id})
         IN  ApplicationListing(Ret(S1, S.ret \o found), step, Tail(accs))

\* Application.list(client): the applications of every account
Application_list(S, step) ==
    LET S1 == Log(S, Entry(step, "list", "account", NoArgs))
    IN  ApplicationListing(Ret(S1, <<>>), step, SortById(S.r.accounts))

\* Application.fetch: the first listed application with the name
Application_fetch(S, step, name) ==
    LET S1 == Application_list(S, step)
        hits == SelectSeq(S1.ret, LAMBDA a : a.name = name)
    IN  Ret(S1, IF hits = <<>> THEN {} ELSE {hits[1]})

\* Application.delete: looks the application up by name again, then
\* DELETE accounts/{self.account_id}/applications/{application.id}
Application_delete(S, step, self) ==
    LET S1 == Application_fetch(S, step, self.name)
        application == The(S1.ret)
        S2 == Log(S1, Entry(step, "delete", "application",
                            [name |-> self.name, id |-> application.id, account_id |-> self.account_id]))
        target == {a \in S.r.applications : a.id = application.id /\ a.account_id = self.account_id}
    IN  IF S1.ret = {} THEN Raise(S1, "ValueError")
        ELSE IF target = {} THEN Raise(S2, "RemoteError")
        ELSE Ret([S2 EXCEPT !.r.applications = @ \ target], {})

\* ApplicationPlan.list: client.services.fetch, then GET application_plans
ApplicationPlan_list(S, step, service_id) ==
    LET S1 == Log(S, Entry(step, "fetch", "product", [id |-> service_id]))
        S2 == Log(S1, Entry(step, "list", "plan", [service_id |-> service_id]))
    IN  IF \A p \in S.r.products : p.id # service_id THEN Raise(S1, "ValueError")
        ELSE Ret(S2, SortById({p \in S.r.plans : p.service_id = service_id}))

\* An ApplicationPlan.create that posts the plan without looking for it
ApplicationPlan_create_unconditional(S, step, name, service_id) ==
    LET system_name == InitSystemName(None, name)
        S1 == ApplicationPlan_list(S, step, service_id)
        S2 == Log(S1, Entry(step, "fetch", "product", [id |-> service_id]))
        S3 == Log(S2, Entry(step, "create", "plan",
                            [service_id |-> service_id, name |-> name, system_name |-> system_name]))
        new == RemotePlan(FreshId(S3), service_id, name, system_name)
    IN  IF ~Ok(S1) THEN S1
        ELSE Ret([S3 EXCEPT !.r = Bump([@ EXCEPT !.plans = @ \cup {new}])], {new})

\* ApplicationPlan.create(client, service_id): ignore_if_exists defaults to True
ApplicationPlan_create(S, step, name, service_id) ==
    LET system_name == InitSystemName(None, name)
        S1 == ApplicationPlan_list(S, step, service_id)
        existing == First({p \in Range(S1.ret) : p.system_name = system_name})
        S2 == Log(S1, Entry(step, "fetch", "product", [id |-> service_id]))
        S3 == Log(S2, Entry(step, "create", "plan",
                            [service_id |-> service_id, name |-> name, system_name |-> system_name]))
        new == RemotePlan(FreshId(S3), service_id, name, system_name)
    IN  IF ~Ok(S1) THEN S1
        ELSE IF existing # {} THEN Ret(S1, existing)
        ELSE Ret([S3 EXCEPT !.r = Bump([@ EXCEPT !.plans = @ \cup {new}])], {new})

\* Application.create(client, ignore_if_exists=True, delete_if_exists)
\* An Application.create that keeps the application it finds (the default,
\* ignore_if_exists, of the method)
Application_create_ignore_if_exists(S, step, self, delete_if_exists) ==
    LET S1 == Application_fetch(S, step, self.name)
        S3 == Log(S1, Entry(step, "create", "application",
                            [name |-> self.name, account_id |-> self.account_id, plan_id |-> self.plan_id,
                             application_id |-> self.client_id, application_key |-> self.client_secret]))
        plan == The({p \in S1.r.plans : p.id = self.plan_id})
        new == RemoteApplication(FreshId(S3), self.name, plan.service_id, self.account_id, self.plan_id,
                                 self.client_id, self.client_secret, self.description)
    IN  IF self.name = None \/ self.description = None THEN Raise(S, "ValueError")
        ELSE IF S1.ret # {} THEN S1
        ELSE Ret([S3 EXCEPT !.r = Bump([@ EXCEPT !.applications = @ \cup {new}])], {new})

Application_create(S, step, self, delete_if_exists) ==
    LET S1 == Application_fetch(S, step, self.name)
        S2 == IF S1.ret # {} /\ delete_if_exists THEN Application_delete(S1, step, The(S1.ret)) ELSE S1
        S3 == Log(S2, Entry(step, "create", "application",
                            [name |-> self.name, account_id |-> self.account_id, plan_id |-> self.plan_id,
                             application_id |-> self.client_id, application_key |-> self.client_secret]))
        plan == The({p \in S2.r.plans : p.id = self.plan_id})
        new == RemoteApplication(FreshId(S3), self.name, plan.service_id, self.account_id, self.plan_id,
                                 self.client_id, self.client_secret, self.description)
    IN  IF self.name = None \/ self.description = None THEN Raise(S, "ValueError")
        ELSE IF S1.ret # {} /\ ~delete_if_exists THEN S1
        ELSE IF ~Ok(S2) THEN S2
        ELSE Ret([S3 EXCEPT !.r = Bump([@ EXCEPT !.applications = @ \cup {new}])], {new})

\* Backend.fetch: the first backend of client.backends.list() with the system_name
Backend_fetch(S, step, system_name) ==
    Ret(Log(S, Entry(step, "list", "backend", [system_name |-> system_name])),
        First({b \in S.r.backends : b.system_name = system_name}))

\* Backend.fetch_by_id
Backend_fetch_by_id(S, step, backend_id) ==
    Ret(Log(S, Entry(step, "list", "backend", [id |-> backend_id])),
        First({b \in S.r.backends : b.id = backend_id}))

\* Backend.create(client, ignore_if_exists)
Backend_create(S, step, self, ignore_if_exists) ==
    LET S1 == Backend_fetch(S, step, self.system_name)
        S2 == Log(S1, Entry(step, "create", "backend",
                            [name |-> self.name, system_name |-> self.system_name,
                             description |-> self.description, private_endpoint |-> self.private_endpoint]))
        new == RemoteBackend(FreshId(S2), self.name, self.system_name, self.description, self.private_endpoint)
    IN  IF S1.ret # {} THEN (IF ignore_if_exists THEN S1 ELSE Raise(S1, "ValueError"))
        ELSE Ret([S2 EXCEPT !.r = Bump([@ EXCEPT !.backends = @ \cup {new}])], {new})

\* The keyword parameters the signature "def update(self, client)" accepts
Backend_update_parameters == {}

\* Backend.update(client, **kwargs): a call with a keyword the signature does
\* not have raises TypeError before the body runs; the body sends the
\* backend's own name, description and private_endpoint.
Backend_update(S, step, self, kwargs) ==
    LET S1 == Log(S, Entry(step, "update", "backend",
                           [id |-> self.id, name |-> self.name, description |-> self.description,
                            private_endpoint |-> self.private_endpoint]))
    IN  IF ~(DOMAIN kwargs \subseteq Backend_update_parameters) THEN Raise(S, "TypeError")
        ELSE Ret(S1, {self})

\* BackendUsage.list
BackendUsage_list(S, step, service_id) ==
    Ret(Log(S, Entry(step, "list", "usage", [service_id |-> service_id])),
        SortById({u \in S.r.usages : u.service_id = service_id}))

\* BackendUsage.update(client, path=path): PUT backend_usages/{id}.  The
\* control plane keeps the paths of one product distinct.
BackendUsage_update(S, step, self, path) ==
    LET S1 == Log(S, Entry(step, "update", "usage", [id |-> self.id, path |-> path]))
        target == {u \in S.r.usages : u.id = self.id}
        taken == \E u \in S.r.usages : u.service_id = self.service_id /\ u.id # self.id /\ u.path = path
    IN  IF target = {} \/ taken THEN Raise(S1, "RemoteError")
        ELSE [S1 EXCEPT !.r.usages = (@ \ target) \cup {[The(target) EXCEPT !.path = path]}]

\* A Product.update_backends whose POST is taken whatever usages the product
\* has
Product_update_backends_unrefused(S, step, service_id, backend_id, path, backend_usages) ==
    LET S1 == Backend_fetch_by_id(S, step, backend_id)
        mine == SelectSeq(backend_usages, LAMBDA u : u.backend_id = backend_id)
        S2 == Log(S1, Entry(step, "create", "usage",
                            [service_id |-> service_id, backend_api_id |-> backend_id, path |-> path]))
        new == RemoteUsage(FreshId(S2), service_id, backend_id, path)
    IN  IF S1.ret = {} THEN Raise(S1, "ValueError")
        ELSE IF mine # <<>> THEN BackendUsage_update(S1, step, mine[1], path)
        ELSE [S2 EXCEPT !.r = Bump([@ EXCEPT !.usages = @ \cup {new}])]

\* Product.update_backends(client, backend_id, path, backend_usages)
Product_update_backends(S, step, service_id, backend_id, path, backend_usages) ==
    LET S1 == Backend_fetch_by_id(S, step, backend_id)
        mine == SelectSeq(backend_usages, LAMBDA u : u.backend_id = backend_id)
        S2 == Log(S1, Entry(step, "create", "usage",
                            [service_id |-> service_id, backend_api_id |-> backend_id, path |-> path]))
        refused == \E u \in S.r.usages : u.service_id = service_id /\ (u.path = path \/ u.backend_id = backend_id)
        new == RemoteUsage(FreshId(S2), service_id, backend_id, path)
    IN  IF S1.ret = {} THEN Raise(S1, "ValueError")
        ELSE IF mine # <<>> THEN BackendUsage_update(S1, step, mine[1], path)
        ELSE IF refused THEN Raise(S2, "RemoteError")
        ELSE [S2 EXCEPT !.r = Bump([@ EXCEPT !.usages = @ \cup {new}])]

\* AuthenticationType.from_string: the values of the enumeration
AuthenticationType ==
    [app_key |-> "1", app_id_key |-> "2", oauth |-> "oauth", oidc |-> "oidc"]

\* Proxy.fetch
Proxy_fetch(S, step, service_id) ==
    Ret(Log(S, Entry(step, "fetch", "proxy", [service_id |-> service_id])),
        {p.proxy : p \in {q \in S.r.products : q.id = service_id}})

\* requests drops the form fields whose value is None
Patch(old, new) == [k \in DOMAIN old |-> IF k \in DOMAIN new /\ new[k] # None THEN new[k] ELSE old[k]]

\* A Proxy.update that patches the proxy fields first and sets the
\* backend_version of the service after them
Proxy_update_patch_first(S, step, service_id, authentication_type, params, accepted) ==
    LET service == {p \in S.r.products : p.id = service_id}
        S1 == Log(S, Entry(step, "update", "proxy", [service_id |-> service_id, params |-> params]))
        S2 == [S1 EXCEPT !.r.products =
                  {IF p.id = service_id THEN [p EXCEPT !.proxy = Patch(@, params)] ELSE p : p \in @}]
        S3 == Log(S2, Entry(step, "fetch", "product", [id |-> service_id]))
        S4 == Log(S3, Entry(step, "update", "backend_version",
                            [id |-> service_id, backend_version |-> authentication_type]))
        S5 == [S4 EXCEPT !.r.products =
                  {IF p.id = service_id THEN [p EXCEPT !.backend_version = authentication_type] ELSE p : p \in @}]
    IN  IF service = {} THEN Raise(S1, "RemoteError")
        ELSE IF authentication_type = "" THEN Proxy_fetch(S2, step, service_id)
        ELSE IF ~accepted THEN Raise(S4, "RemoteError")
        ELSE Proxy_fetch(S5, step, service_id)

\* Proxy.update: the backend_version of the service first (when an
\* authentication type is given), then PATCH proxy.xml, then fetch.  The
\* control plane accepts the backend_version update or refuses it, and
\* client.services.update raises on a refusal.
Proxy_update_answered(S, step, service_id, authentication_type, params, accepted) ==
    LET service == {p \in S.r.products : p.id = service_id}
        S1 == Log(S, Entry(step, "fetch", "product", [id |-> service_id]))
        S2 == Log(S1, Entry(step, "update", "backend_version",
                            [id |-> service_id, backend_version |-> authentication_type]))
        S3 == IF authentication_type = ""
              THEN S
              ELSE [S2 EXCEPT !.r.products =
                       (@ \ service) \cup {[p EXCEPT !.backend_version = authentication_type] : p \in service}]
        S4 == Log(S3, Entry(step, "update", "proxy", [service_id |-> service_id, params |-> params]))
        S5 == [S4 EXCEPT !.r.products =
                  {IF p.id = service_id THEN [p EXCEPT !.proxy = Patch(@, params)] ELSE p : p \in @}]
    IN  IF authentication_type # "" /\ service = {} THEN Raise(S1, "ValueError")
        ELSE IF authentication_type # "" /\ ~accepted THEN Raise(S2, "RemoteError")
        ELSE IF service = {} THEN Raise(S4, "RemoteError")
        ELSE Proxy_fetch(S5, step, service_id)

\* Proxy.update when the control plane accepts the backend_version update
Proxy_update(S, step, service_id, authentication_type, params) ==
    Proxy_update_answered(S, step, service_id, authentication_type, params, TRUE)

\* ApplicationOIDCConfiguration.fetch
OIDC_fetch(S, step, service_id) ==
    Ret(Log(S, Entry(step, "fetch", "oidc", [service_id |-> service_id])),
        {p.oidc : p \in {q \in S.r.products : q.id = service_id}})

\* ApplicationOIDCConfiguration.update: PATCH with the four flags
OIDC_update(S, step, service_id, flags) ==
    LET S1 == Log(S, Entry(step, "update", "oidc", [service_id |-> service_id, flags |-> flags]))
    IN  [S1 EXCEPT !.r.products = {IF p.id = service_id THEN [p EXCEPT !.oidc = flags] ELSE p : p \in @}]

\* A Product.update_policies whose PUT adds the list to the chain in place
Product_update_policies_merging(S, step, service_id, policy_chain) ==
    LET S1 == Log(S, Entry(step, "update", "policies", [service_id |-> service_id, chain |-> policy_chain]))
    IN  [S1 EXCEPT !.r.products = {IF p.id = service_id THEN [p EXCEPT !.policies = @ \o policy_chain] ELSE p : p \in @}]

\* Product.update_policies: PUT proxy/policies.json with the whole chain
Product_update_policies(S, step, service_id, policy_chain) ==
    LET S1 == Log(S, Entry(step, "update", "policies", [service_id |-> service_id, chain |-> policy_chain]))
    IN  [S1 EXCEPT !.r.products = {IF p.id = service_id THEN [p EXCEPT !.policies = policy_chain] ELSE p : p \in @}]

\* ProxyMapping.list
ProxyMapping_list(S, step, service_id) ==
    Ret(Log(S, Entry(step, "list", "mapping", [service_id |-> service_id])),
        SortById({m \in S.r.mappings : m.service_id = service_id}))

\* ProxyMapping.fetch_existing
ProxyMapping_fetch_existing(S, step, service_id, http_method, pattern) ==
    LET S1 == ProxyMapping_list(S, step, service_id)
        hits == SelectSeq(S1.ret, LAMBDA m : m.http_method = http_method /\ m.pattern = pattern)
    IN  Ret(S1, IF hits = <<>> THEN {} ELSE {hits[1]})

\* ProxyMapping.delete
ProxyMapping_delete(S, step, self, service_id) ==
    LET S1 == Log(S, Entry(step, "delete", "mapping",
                           [id |-> self.id, http_method |-> self.http_method, pattern |-> self.pattern]))
        target == {m \in S.r.mappings : m.id = self.id /\ m.service_id = service_id}
    IN  IF target = {} THEN Raise(S1, "RemoteError")
        ELSE [S1 EXCEPT !.r.mappings = @ \ target]

\* ProxyMapping.create(client, service_id, existing_mappings=existing_mappings)
ProxyMapping_create(S, step, self, service_id, existing_mappings) ==
    LET has_existing_mapping ==
            \E i \in DOMAIN existing_mappings :
                /\ existing_mappings[i].http_method = self.http_method
                /\ existing_mappings[i].pattern = self.pattern
        S1 == IF has_existing_mapping
              THEN ProxyMapping_fetch_existing(S, step, service_id, self.http_method, self.pattern)
              ELSE Ret(S, {})
        S2 == Log(S1, Entry(step, "create", "mapping",
                            [http_method |-> self.http_method, pattern |-> self.pattern,
                             metric_id |-> self.metric_id]))
        new == RemoteMapping(FreshId(S2), service_id, self.http_method, self.pattern, self.metric_id)
    IN  IF S1.ret # {} THEN S1
        ELSE Ret([S2 EXCEPT !.r = Bump([@ EXCEPT !.mappings = @ \cup {new}])], {new})

\* Metric.fetch_hits_metric: every product has its built-in hits metric
Metric_fetch_hits_metric(S, step, service_id) ==
    Ret(Log(S, Entry(step, "list", "metric", [service_id |-> service_id])), {[id |-> service_id]})

-----------------------------------------------------------------------------
(* src/sync.py: the reconcilers *)

\* sync_product, "Create product": fetch, update the name and description
\* when they changed, then create (which returns the product when it exists)
\* A product step that replaces the policy chain of the product it finds
\* before it fetches or creates the product
sync_product_policies_first(S, product_config) ==
    LET product_system_name == SystemName(product_config.shortName)
        self == [name |-> product_config.name, description |-> product_config.description,
                 system_name |-> InitSystemName(product_system_name, product_config.name)]
        S0 == Log(S, Entry("product", "update", "policies", [system_name |-> product_system_name]))
        S1 == Product_fetch(S0, "product", product_system_name)
        existing_product == The(S1.ret)
        S2 == IF S1.ret # {} /\ (self.name # existing_product.name
                                 \/ self.description # existing_product.description)
              THEN Product_update(S1, "product", existing_product,
                                  [name |-> self.name, description |-> self.description])
              ELSE S1
    IN  Product_create(S2, "product", self)

\* A product step that updates the product it finds without comparing
sync_product_update_always(S, product_config) ==
    LET product_system_name == SystemName(product_config.shortName)
        self == [name |-> product_config.name, description |-> product_config.description,
                 system_name |-> InitSystemName(product_system_name, product_config.name)]
        S1 == Product_fetch(S, "product", product_system_name)
        S2 == IF S1.ret # {}
              THEN Product_update(S1, "product", The(S1.ret),
                                  [name |-> self.name, description |-> self.description])
              ELSE S1
    IN  Product_create(S2, "product", self)

sync_product_create(S, product_config) ==
    LET product_system_name == SystemName(product_config.shortName)
        self == [name |-> product_config.name, description |-> product_config.description,
                 system_name |-> InitSystemName(product_system_name, product_config.name)]
        S1 == Product_fetch(S, "product", product_system_name)
        existing_product == The(S1.ret)
        has_product_metadata_changed ==
            self.name # existing_product.name \/ self.description # existing_product.description
        S2 == IF S1.ret # {} /\ has_product_metadata_changed
              THEN Product_update(S1, "product", existing_product,
                                  [name |-> self.name, description |-> self.description])
              ELSE S1
    IN  Product_create(S2, "product", self)

RECURSIVE DeleteExtraApplications(_, _, _, _)
\* sync_applications, "Delete extra applications": the loop over the listing
DeleteExtraApplications(S, listed, service_id, active_applications) ==
    IF listed = <<>> \/ ~Ok(S) THEN S
    ELSE LET application == Head(listed)
             S1 == IF application.service_id = service_id /\ application.name \notin active_applications
                   THEN Application_delete(S, "applications", application)
                   ELSE S
         IN  DeleteExtraApplications(S1, Tail(listed), service_id, active_applications)

\* sync_applications, first loop
sync_applications_delete(S, product_config, service_id) ==
    LET active_applications == {product_config.applications[i].name : i \in DOMAIN product_config.applications}
        S1 == Application_list(S, "applications")
    IN  DeleteExtraApplications(S1, S1.ret, service_id, active_applications)

\* fetch_user_id(c, application_config, accounts=accounts): the ids of the
\* accounts of the list handed in that carry the username
fetch_user_id(S, application_config, accs) ==
    LET users == SelectSeq(accs, LAMBDA u : u.username = application_config.account)
    IN  IF users = <<>> THEN Raise(S, "ValueError") ELSE Ret(S, {users[1]})

\* sync_applications, one pass of the second loop
sync_applications_create(S, environment, product_config, service_id, application_config, accs) ==
    LET product_system_name == SystemName(product_config.shortName)
        account_list == SelectSeq(accs, LAMBDA a : a.username = application_config.account)
        account == IF Len(account_list) = 1 THEN {account_list[1]} ELSE {}
        S1 == IF account = {} THEN Account_create(S, "applications", application_config.account) ELSE S
        S2 == fetch_user_id(S1, application_config, accs)
        user_id == The(S2.ret).id
        application_name ==
            IF application_config.name # None THEN application_config.name
            ELSE DefaultApplicationName(environment, product_system_name, product_config.version)
        application_plan_name == ApplicationPlanName(environment, product_system_name, product_config.version)
        S3 == ApplicationPlan_create(S2, "applications", application_plan_name, service_id)
        application_plan == The(S3.ret)
        self == [name |-> application_name, client_id |-> application_config.client_id,
                 client_secret |-> application_config.client_secret,
                 description |-> product_config.description, account_id |-> user_id,
                 plan_id |-> application_plan.id]
    IN  IF ~Ok(S1) THEN S1
        ELSE IF ~Ok(S2) THEN S2
        ELSE IF ~Ok(S3) THEN S3
        ELSE Application_create(S3, "applications", self, TRUE)

\* sync_product, "Configure authentication": Proxy.fetch, then Proxy.update
\* with the authentication type AuthenticationType.from_string yields
sync_product_auth_answered(S, product_config, service_id, accepted) ==
    LET api == product_config.api
        S1 == Proxy_fetch(S, "auth", service_id)
    IN  IF api.authType \notin DOMAIN AuthenticationType THEN Raise(S1, "KeyError")
        ELSE Proxy_update_answered(S1, "auth", service_id, AuthenticationType[api.authType],
                                   [oidc_issuer_endpoint |-> api.issuerURL, oidc_issuer_type |-> api.issuerType,
                                    credentials_location |-> api.credentialsLocation,
                                    sandbox_endpoint |-> product_config.stagingPublicURL,
                                    endpoint |-> product_config.productionPublicURL],
                                   accepted)

\* "Configure authentication" when the control plane accepts the
\* backend_version update
sync_product_auth(S, product_config, service_id) ==
    sync_product_auth_answered(S, product_config, service_id, TRUE)

\* "if product_config.api.oidcFlows": None and the empty dict are false
HasOidcFlows(product_config) ==
    /\ product_config.api.oidcFlows.present
    /\ \E k \in FlowKeys : product_config.api.oidcFlows.flags[k] # "unset"

\* sync_oidc_flows: a flag the dict lacks is sent as False
sync_oidc_flows(S, service_id, product_config) ==
    LET oidc_flows == product_config.api.oidcFlows.flags
        S1 == OIDC_fetch(S, "oidc", service_id)
    IN  OIDC_update(S1, "oidc", service_id,
                    [k \in FlowKeys |-> IF oidc_flows[k] # "unset" THEN oidc_flows[k] ELSE "false"])

\* sync_policies: '[]' without a policies file, the loaded document otherwise
sync_policies(S, service_id, filepath) ==
    IF filepath.path = None
    THEN Product_update_policies(S, "policies", service_id, <<>>)
    ELSE Product_update_policies(S, "policies", service_id, filepath.doc)

\* sync_backends, one pass of the loop: create the backend, on "already
\* exists" fetch it and update it, then attach it to the product
sync_backends_backend(S, environment, description, service_id, backend_config, backend_usages) ==
    LET backend_name == BackendName(environment, backend_config.id)
        self == [name |-> backend_name, system_name |-> InitSystemName(None, backend_name),
                 description |-> description, private_endpoint |-> backend_config.privateBaseURL]
        S1 == Backend_create(S, "backends", self, FALSE)
        S2 == Backend_fetch([S1 EXCEPT !.err = ""], "backends", self.system_name)
        S3 == IF S1.err = "ValueError"
              THEN Backend_update(S2, "backends", The(S2.ret),
                                  [name |-> self.name, description |-> self.description,
                                   private_endpoint |-> self.private_endpoint])
              ELSE S1
    IN  IF ~Ok(S3) THEN S3
        ELSE Product_update_backends(S3, "backends", service_id, The(S3.ret).id, backend_config.path,
                                     backend_usages)

\* sync_mappings, the inner loop of "Delete extra mappings": the flag is
\* cleared by every active mapping that differs from the rule
ShouldBeActive(active_mappings, mapping) ==
    \A i \in DOMAIN active_mappings : active_mappings[i] = <<mapping.http_method, mapping.pattern>>

RECURSIVE DeleteExtraMappings(_, _, _, _)
DeleteExtraMappings(S, listed, active_mappings, service_id) ==
    IF listed = <<>> \/ ~Ok(S) THEN S
    ELSE LET mapping == Head(listed)
             S1 == IF ~ShouldBeActive(active_mappings, mapping)
                   THEN ProxyMapping_delete(S, "mappings", mapping, service_id)
                   ELSE S
         IN  DeleteExtraMappings(S1, Tail(listed), active_mappings, service_id)

RECURSIVE CreateMappings(_, _, _, _)
CreateMappings(S, todo, service_id, existing_mappings) ==
    IF todo = <<>> \/ ~Ok(S) THEN S
    ELSE CreateMappings(ProxyMapping_create(S, "mappings", Head(todo), service_id, existing_mappings),
                        Tail(todo), service_id, existing_mappings)

\* The (method, pattern) pairs the deletion pass compares against: the
\* OpenAPI mappings as parsed, then the mappings of the configuration
ActiveMappings(product_config) ==
    [i \in DOMAIN product_config.openapi |->
        <<product_config.openapi[i].http_method, product_config.openapi[i].pattern>>]
    \o [i \in DOMAIN product_config.mappings |->
        <<product_config.mappings[i].method, product_config.mappings[i].pattern>>]

\* The mappings the creation pass creates: the OpenAPI mappings with the
\* publicBasePath put in front, then the mappings of the configuration
DesiredMappings(product_config, metric_id) ==
    [i \in DOMAIN product_config.openapi |->
        [http_method |-> product_config.openapi[i].http_method,
         pattern |-> product_config.api.publicBasePath \o product_config.openapi[i].pattern,
         metric_id |-> metric_id]]
    \o [i \in DOMAIN product_config.mappings |->
        [http_method |-> product_config.mappings[i].method,
         pattern |-> product_config.mappings[i].pattern,
         metric_id |-> metric_id]]

\* sync_mappings
sync_mappings(S, service_id, product_config) ==
    LET S1 == ProxyMapping_list(S, "mappings", service_id)
        S2 == DeleteExtraMappings(S1, S1.ret, ActiveMappings(product_config), service_id)
        S3 == ProxyMapping_list(S2, "mappings", service_id)
        existing_mappings == S3.ret
        S4 == Metric_fetch_hits_metric(S3, "mappings", service_id)
        hits_metric == The(S4.ret)
        S5 == CreateMappings(S4, DesiredMappings(product_config, hits_metric.id), service_id,
                             existing_mappings)
    IN  IF ~Ok(S2) THEN S2
        ELSE IF ~Ok(S5) THEN S5
        ELSE ProxyMapping_list(S5, "mappings", service_id)

\* Proxy.fetch_latest_configuration: the latest configuration the control
\* plane holds for the product in the environment, known by its version
Proxy_fetch_latest_configuration(S, step, service_id, environment) ==
    Ret(Log(S, Entry(step, "fetch", "proxy_config", [service_id |-> service_id, environment |-> environment])),
        {[id |-> 0, version |-> [latest |-> environment, service_id |-> service_id]]})

\* response.ok and response.text of an answer with the given status_code
ResponseOk(status_code) == status_code < 400
ResponseText(status_code) == <<"body", status_code>>

\* A Proxy.promote that treats 422 as any other refusal
Proxy_promote_strict(S, service_id, response) ==
    LET proxy == The({[id |-> 0, p |-> p.proxy] : p \in {q \in S.r.products : q.id = service_id}}).p
        S1 == Proxy_update(S, "promote", service_id, "",
                           [credentials_location |-> proxy.credentials_location])
        S2 == Proxy_fetch_latest_configuration(S1, "promote", service_id, "sandbox")
        latest_version == The(S2.ret).version
        S3 == Log(S2, Entry("promote", "promote", "proxy_config",
                            [service_id |-> service_id, environment |-> "sandbox",
                             version |-> latest_version, to |-> "production", status |-> response]))
    IN  IF ~Ok(S1) THEN S1
        ELSE IF ResponseOk(response) THEN S3
        ELSE RaiseWith(S3, "RemoteError", ResponseText(response))

\* A Proxy.promote that promotes the latest production configuration
Proxy_promote_production(S, service_id, response) ==
    LET proxy == The({[id |-> 0, p |-> p.proxy] : p \in {q \in S.r.products : q.id = service_id}}).p
        S1 == Proxy_update(S, "promote", service_id, "",
                           [credentials_location |-> proxy.credentials_location])
        S2 == Proxy_fetch_latest_configuration(S1, "promote", service_id, "production")
        latest_version == The(S2.ret).version
        S3 == Log(S2, Entry("promote", "promote", "proxy_config",
                            [service_id |-> service_id, environment |-> "sandbox",
                             version |-> latest_version, to |-> "production", status |-> response]))
    IN  IF ~Ok(S1) THEN S1
        ELSE IF ResponseOk(response) \/ response = 422 THEN S3
        ELSE RaiseWith(S3, "RemoteError", ResponseText(response))

\* Proxy.promote: a no-op update, the latest sandbox configuration, then the
\* promote call, whose answer is a status of the control plane
Proxy_promote(S, service_id, response) ==
    LET proxy == The({[id |-> 0, p |-> p.proxy] : p \in {q \in S.r.products : q.id = service_id}}).p
        S1 == Proxy_update(S, "promote", service_id, "",
                           [credentials_location |-> proxy.credentials_location])
        S2 == Proxy_fetch_latest_configuration(S1, "promote", service_id, "sandbox")
        latest_version == The(S2.ret).version
        S3 == Log(S2, Entry("promote", "promote", "proxy_config",
                            [service_id |-> service_id, environment |-> "sandbox",
                             version |-> latest_version, to |-> "production", status |-> response]))
    IN  IF ~Ok(S1) THEN S1
        ELSE IF ResponseOk(response) \/ response = 422 THEN S3
        ELSE RaiseWith(S3, "RemoteError", ResponseText(response))

-----------------------------------------------------------------------------
(* The program: one run validates the configuration and reconciles its     *)
(* products in declaration order; the operator may run it again.           *)

Products == config.products
ProductConfigAt == Products[pi]
ProductId == The(product).id
Pending == [i \in DOMAIN Products |-> "pending"]
NoRun == [status |-> <<>>, error |-> "", ran |-> FALSE]
\* A sequential run has no worker
NoWorkers == [start |-> {}, of |-> <<>>]

Init ==
    /\ config \in Configs
    /\ remote \in RemotePool
    /\ pc = "main"
    /\ run = 1
    /\ pi = 0
    /\ ai = 0
    /\ bi = 0
    /\ accounts = <<>>
    /\ usages = <<>>
    /\ product = {}
    /\ calls = <<>>
    /\ status = Pending
    /\ error = ""
    /\ prev = NoRun
    /\ reported = <<>>
    /\ argv = [delete |-> FALSE]
    /\ answer = {}
    /\ workers = NoWorkers

\* What a reconciler leaves: the remote state and the log, and either the
\* next position or the exception, which ends the run.
Commit(S, next_pc) ==
    /\ remote' = S.r
    /\ calls' = S.log
    /\ IF Ok(S)
       THEN /\ pc' = next_pc
            /\ error' = error
            /\ status' = status
       ELSE /\ pc' = "failed"
            /\ error' = S.err
            /\ status' = [status EXCEPT ![pi] = "failed"]

\* The entry point: the configuration is validated once, before
\* start_sync_for_one_config is handed the configuration.
Main ==
    /\ pc = "main"
    /\ IF Validate(config.products) = ""
       THEN pc' = "sync_config" /\ error' = error
       ELSE pc' = "aborted" /\ error' = "AssertionError"
    /\ reported' = Validate_duplicates(config.products)
    /\ UNCHANGED <<argv, answer, workers, config, remote, run, pi, ai, bi, accounts, usages, product, calls, status, prev>>

\* start_sync_for_one_config without --delete, and sync_config up to its
\* loop: the account list is fetched once
SyncConfig ==
    /\ pc = "sync_config"
    /\ LET S == Account_list(St(remote, calls), "sync_config")
       IN  /\ accounts' = S.ret
           /\ calls' = S.log
    /\ pi' = 1
    /\ status' = [status EXCEPT ![1] = "running"]
    /\ pc' = "product"
    /\ UNCHANGED <<argv, answer, reported, workers, config, remote, run, ai, bi, usages, product, error, prev>>

\* sync_product, lines 131-142
SyncProduct ==
    /\ pc = "product"
    /\ LET S == sync_product_create(St(remote, calls), ProductConfigAt)
       IN  /\ product' = S.ret
           /\ Commit(S, "applications")
    /\ UNCHANGED <<argv, answer, reported, workers, config, run, pi, ai, bi, accounts, usages, prev>>

\* sync_applications: the deletion pass
SyncApplicationsDelete ==
    /\ pc = "applications"
    /\ Commit(sync_applications_delete(St(remote, calls), ProductConfigAt, ProductId),
              IF ProductConfigAt.applications = <<>> THEN "auth" ELSE "application")
    /\ ai' = 1
    /\ UNCHANGED <<argv, answer, reported, workers, config, run, pi, bi, accounts, usages, product, prev>>

\* sync_applications: one application of the configuration
SyncApplicationsCreate ==
    /\ pc = "application"
    /\ Commit(sync_applications_create(St(remote, calls), config.environment, ProductConfigAt, ProductId,
                                       ProductConfigAt.applications[ai], accounts),
              IF ai < Len(ProductConfigAt.applications) THEN "application" ELSE "auth")
    /\ ai' = ai + 1
    /\ UNCHANGED <<argv, answer, reported, workers, config, run, pi, bi, accounts, usages, product, prev>>

\* sync_product, lines 145-152
SyncAuth ==
    /\ pc = "auth"
    /\ \E accepted \in BOOLEAN :
        Commit(sync_product_auth_answered(St(remote, calls), ProductConfigAt, ProductId, accepted),
               IF HasOidcFlows(ProductConfigAt) THEN "oidc" ELSE "policies")
    /\ UNCHANGED <<argv, answer, reported, workers, config, run, pi, ai, bi, accounts, usages, product, prev>>

SyncOidcFlows ==
    /\ pc = "oidc"
    /\ Commit(sync_oidc_flows(St(remote, calls), ProductId, ProductConfigAt), "policies")
    /\ UNCHANGED <<argv, answer, reported, workers, config, run, pi, ai, bi, accounts, usages, product, prev>>

SyncPolicies ==
    /\ pc = "policies"
    /\ Commit(sync_policies(St(remote, calls), ProductId, ProductConfigAt.policiesPath), "backends")
    /\ UNCHANGED <<argv, answer, reported, workers, config, run, pi, ai, bi, accounts, usages, product, prev>>

\* sync_backends: the usage list is fetched once
\* A sync_backends that detaches the backends the product no longer declares
SyncBackendsList_pruning ==
    /\ pc = "backends"
    /\ LET S == BackendUsage_list(St(remote, calls), "backends", ProductId)
           declared == {SystemName(BackendName(config.environment, ProductConfigAt.backends[j].id)) :
                            j \in DOMAIN ProductConfigAt.backends}
           kept == {b.id : b \in {x \in remote.backends : x.system_name \in declared}}
           stale == SelectSeq(S.ret, LAMBDA u : u.backend_id \notin kept)
           S1 == IF stale = <<>> THEN S
                 ELSE [Log(S, Entry("backends", "delete", "usage", [id |-> stale[1].id]))
                          EXCEPT !.r.usages = @ \ {stale[1]}]
       IN  /\ usages' = S.ret
           /\ Commit(S1, IF ProductConfigAt.backends = <<>> THEN "mappings" ELSE "backend")
    /\ bi' = 1
    /\ UNCHANGED <<argv, answer, reported, workers, config, run, pi, ai, accounts, product, prev>>

\* sync_backends: the usages of the product are listed once
SyncBackendsList ==
    /\ pc = "backends"
    /\ LET S == BackendUsage_list(St(remote, calls), "backends", ProductId)
       IN  /\ usages' = S.ret
           /\ Commit(S, IF ProductConfigAt.backends = <<>> THEN "mappings" ELSE "backend")
    /\ bi' = 1
    /\ UNCHANGED <<argv, answer, reported, workers, config, run, pi, ai, accounts, product, prev>>

\* sync_backends: one backend of the configuration
SyncBackendsBackend ==
    /\ pc = "backend"
    /\ Commit(sync_backends_backend(St(remote, calls), config.environment, ProductConfigAt.description,
                                    ProductId, ProductConfigAt.backends[bi], usages),
              IF bi < Len(ProductConfigAt.backends) THEN "backend" ELSE "mappings")
    /\ bi' = bi + 1
    /\ UNCHANGED <<argv, answer, reported, workers, config, run, pi, ai, accounts, usages, product, prev>>

SyncMappings ==
    /\ pc = "mappings"
    /\ Commit(sync_mappings(St(remote, calls), ProductId, ProductConfigAt), "promote")
    /\ UNCHANGED <<argv, answer, reported, workers, config, run, pi, ai, bi, accounts, usages, product, prev>>

\* The statuses the promote call is answered with
PromoteResponses == {201, 403, 422, 500}

\* A sync_config that catches the failure of a product and goes on with the
\* next one
Promote_isolated ==
    /\ pc = "promote"
    /\ \E response \in PromoteResponses :
        LET S0 == Proxy_fetch(St(remote, calls), "promote", ProductId)
            S == Proxy_promote(S0, ProductId, response)
            result == IF Ok(S) THEN "ok" ELSE "failed"
        IN  /\ remote' = S.r
            /\ calls' = S.log
            /\ error' = error
            /\ IF pi < Len(Products)
               THEN /\ pc' = "product"
                    /\ pi' = pi + 1
                    /\ status' = [status EXCEPT ![pi] = result, ![pi + 1] = "running"]
               ELSE /\ pc' = "done"
                    /\ pi' = pi
                    /\ status' = [status EXCEPT ![pi] = result]
    /\ UNCHANGED <<argv, answer, reported, workers, config, run, ai, bi, accounts, usages, product, prev>>

\* sync_product, lines 158-160, and the step of the loop of sync_config
Promote ==
    /\ pc = "promote"
    /\ \E response \in PromoteResponses :
        LET S0 == Proxy_fetch(St(remote, calls), "promote", ProductId)
            S == Proxy_promote(S0, ProductId, response)
        IN  /\ remote' = S.r
            /\ calls' = S.log
            /\ IF ~Ok(S)
               THEN /\ pc' = "failed"
                    /\ error' = S.err
                    /\ status' = [status EXCEPT ![pi] = "failed"]
                    /\ pi' = pi
               ELSE /\ error' = error
                    /\ IF pi < Len(Products)
                       THEN /\ pc' = "product"
                            /\ pi' = pi + 1
                            /\ status' = [status EXCEPT ![pi] = "ok", ![pi + 1] = "running"]
                       ELSE /\ pc' = "done"
                            /\ pi' = pi
                            /\ status' = [status EXCEPT ![pi] = "ok"]
    /\ UNCHANGED <<argv, answer, reported, workers, config, run, ai, bi, accounts, usages, product, prev>>

\* The positions at which the next statement is a call of the control plane
RemoteSteps ==
    {"sync_config", "product", "applications", "application", "auth", "oidc", "policies",
     "backends", "backend", "mappings", "promote"}

\* The control plane answers the next call with an error (or not at all):
\* the exception leaves sync_product and sync_config.
RemoteFailure ==
    /\ pc \in RemoteSteps
    /\ calls' = Append(calls, Entry(pc, "error", "response", NoArgs))
    /\ pc' = "failed"
    /\ error' = "RemoteError"
    /\ status' = IF pi = 0 THEN status ELSE [status EXCEPT ![pi] = "failed"]
    /\ UNCHANGED <<argv, answer, reported, workers, config, remote, run, pi, ai, bi, accounts, usages, product, prev>>

\* The operator runs the program again on the same configuration.
Rerun ==
    /\ pc \in {"done", "failed", "aborted"}
    /\ run < MaxRuns
    /\ run' = run + 1
    /\ prev' = [status |-> status, error |-> error, ran |-> TRUE]
    /\ pc' = "main"
    /\ pi' = 0
    /\ ai' = 0
    /\ bi' = 0
    /\ accounts' = <<>>
    /\ usages' = <<>>
    /\ product' = {}
    /\ calls' = <<>>
    /\ status' = Pending
    /\ error' = ""
    /\ reported' = <<>>
    /\ UNCHANGED <<argv, answer, workers, config, remote>>

Next ==
    \/ Main
    \/ SyncConfig
    \/ SyncProduct
    \/ SyncApplicationsDelete
    \/ SyncApplicationsCreate
    \/ SyncAuth
    \/ SyncOidcFlows
    \/ SyncPolicies
    \/ SyncBackendsList
    \/ SyncBackendsBackend
    \/ SyncMappings
    \/ Promote
    \/ RemoteFailure
    \/ Rerun

Spec == Init /\ [][Next]_vars

-----------------------------------------------------------------------------
(* Products reconciled in parallel *)

\* sync_applications, the loop over the applications of the configuration
RECURSIVE CreateApplications(_, _, _, _, _, _)
CreateApplications(S, environment, product_config, service_id, accs, i) ==
    IF ~Ok(S) \/ i > Len(product_config.applications) THEN S
    ELSE CreateApplications(sync_applications_create(S, environment, product_config, service_id,
                                                     product_config.applications[i], accs),
                            environment, product_config, service_id, accs, i + 1)

\* sync_applications: the deletion pass, then the configured applications
sync_applications(S, environment, product_config, service_id, accs) ==
    CreateApplications(sync_applications_delete(S, product_config, service_id),
                       environment, product_config, service_id, accs, 1)

\* sync_backends, the loop over the backends of the configuration
RECURSIVE SyncEachBackend(_, _, _, _, _, _)
SyncEachBackend(S, environment, product_config, service_id, backend_usages, i) ==
    IF ~Ok(S) \/ i > Len(product_config.backends) THEN S
    ELSE SyncEachBackend(sync_backends_backend(S, environment, product_config.description, service_id,
                                               product_config.backends[i], backend_usages),
                         environment, product_config, service_id, backend_usages, i + 1)

\* sync_backends: the usages are listed once, then every backend is synced
sync_backends(S, environment, product_config, service_id) ==
    LET S1 == BackendUsage_list(S, "backends", service_id)
    IN  SyncEachBackend(S1, environment, product_config, service_id, S1.ret, 1)

\* sync_product from its first remote call to the promotion, which the
\* control plane accepts
sync_product(S, environment, accs, product_config) ==
    LET S1 == sync_product_create(S, product_config)
        service_id == The(S1.ret).id
        S2 == sync_applications(S1, environment, product_config, service_id, accs)
        S3 == sync_product_auth(S2, product_config, service_id)
        S4 == IF HasOidcFlows(product_config) THEN sync_oidc_flows(S3, service_id, product_config)
              ELSE S3
        S5 == sync_policies(S4, service_id, product_config.policiesPath)
        S6 == sync_backends(S5, environment, product_config, service_id)
        S7 == sync_mappings(S6, service_id, product_config)
    IN  IF ~Ok(S1) THEN S1
        ELSE IF ~Ok(S2) THEN S2
        ELSE IF ~Ok(S3) THEN S3
        ELSE IF ~Ok(S4) THEN S4
        ELSE IF ~Ok(S5) THEN S5
        ELSE IF ~Ok(S6) THEN S6
        ELSE IF ~Ok(S7) THEN S7
        ELSE Proxy_promote(Proxy_fetch(S7, "promote", service_id), service_id, 201)

\* One worker per product of a configuration of two products
Workers == {1, 2}

\* A worker about to enter sync_product
Worker ==
    [pc |-> "product", ai |-> 1, bi |-> 1, product |-> {}, usages |-> <<>>, listed |-> <<>>,
     err |-> ""]

\* The configuration has passed the pre-flight validation and the account
\* list has been fetched; each product is handed to a worker of its own.
InitParallel ==
    /\ config \in {c \in Configs : Len(c.products) = 2 /\ Validate(c.products) = ""}
    /\ remote \in RemotePool
    /\ pc = "workers"
    /\ run = 1
    /\ pi = 0
    /\ ai = 0
    /\ bi = 0
    /\ accounts = Account_list(St(remote, <<>>), "sync_config").ret
    /\ usages = <<>>
    /\ product = {}
    /\ calls = <<>>
    /\ status = Pending
    /\ error = ""
    /\ prev = NoRun
    /\ reported = <<>>
    /\ argv = [delete |-> FALSE]
    /\ answer = {}
    /\ workers = [start |-> remote, of |-> [w \in Workers |-> Worker]]

\* What a step of worker w leaves: the remote state, and the worker at its
\* next position or stopped by the exception
WorkerCommit(w, S, next_pc, me) ==
    /\ remote' = S.r
    /\ workers' = [workers EXCEPT !.of[w] = IF Ok(S) THEN [me EXCEPT !.pc = next_pc]
                                            ELSE [me EXCEPT !.pc = "failed", !.err = S.err]]
    /\ UNCHANGED <<argv, answer, reported, config, pc, run, pi, ai, bi, accounts, usages, product, calls, status, error, prev>>

\* The remote state as the worker's next call finds it
Now == St(remote, <<>>)

\* sync_product, lines 131-142, in worker w
WorkerProduct ==
    \E w \in Workers :
        LET me == workers.of[w]
            S == sync_product_create(Now, Products[w])
        IN  /\ me.pc = "product"
            /\ WorkerCommit(w, S, "applications", [me EXCEPT !.product = S.ret])

\* sync_applications, line 182: the applications are listed
WorkerApplicationsList ==
    \E w \in Workers :
        LET me == workers.of[w]
            S == Application_list(Now, "applications")
        IN  /\ me.pc = "applications"
            /\ WorkerCommit(w, S, "delete", [me EXCEPT !.listed = S.ret])

\* sync_applications, lines 183-186: the listed applications of the product
\* that the configuration does not name are deleted
WorkerApplicationsDelete ==
    \E w \in Workers :
        LET me == workers.of[w]
            active_applications == {Products[w].applications[i].name : i \in DOMAIN Products[w].applications}
            S == DeleteExtraApplications(Now, me.listed, The(me.product).id, active_applications)
        IN  /\ me.pc = "delete"
            /\ WorkerCommit(w, S, IF Products[w].applications = <<>> THEN "auth" ELSE "application", me)

\* sync_applications: one application of the configuration
WorkerApplicationsCreate ==
    \E w \in Workers :
        LET me == workers.of[w]
            S == sync_applications_create(Now, config.environment, Products[w], The(me.product).id,
                                          Products[w].applications[me.ai], accounts)
        IN  /\ me.pc = "application"
            /\ WorkerCommit(w, S, IF me.ai < Len(Products[w].applications) THEN "application" ELSE "auth",
                            [me EXCEPT !.ai = @ + 1])

\* sync_product, lines 145-152, in worker w
WorkerAuth ==
    \E w \in Workers :
        LET me == workers.of[w]
            S == sync_product_auth(Now, Products[w], The(me.product).id)
        IN  /\ me.pc = "auth"
            /\ WorkerCommit(w, S, IF HasOidcFlows(Products[w]) THEN "oidc" ELSE "policies", me)

WorkerOidcFlows ==
    \E w \in Workers :
        LET me == workers.of[w]
            S == sync_oidc_flows(Now, The(me.product).id, Products[w])
        IN  /\ me.pc = "oidc"
            /\ WorkerCommit(w, S, "policies", me)

WorkerPolicies ==
    \E w \in Workers :
        LET me == workers.of[w]
            S == sync_policies(Now, The(me.product).id, Products[w].policiesPath)
        IN  /\ me.pc = "policies"
            /\ WorkerCommit(w, S, "backends", me)

WorkerBackendsList ==
    \E w \in Workers :
        LET me == workers.of[w]
            S == BackendUsage_list(Now, "backends", The(me.product).id)
        IN  /\ me.pc = "backends"
            /\ WorkerCommit(w, S, IF Products[w].backends = <<>> THEN "mappings" ELSE "backend",
                            [me EXCEPT !.usages = S.ret])

WorkerBackendsBackend ==
    \E w \in Workers :
        LET me == workers.of[w]
            S == sync_backends_backend(Now, config.environment, Products[w].description,
                                       The(me.product).id, Products[w].backends[me.bi], me.usages)
        IN  /\ me.pc = "backend"
            /\ WorkerCommit(w, S, IF me.bi < Len(Products[w].backends) THEN "backend" ELSE "mappings",
                            [me EXCEPT !.bi = @ + 1])

WorkerMappings ==
    \E w \in Workers :
        LET me == workers.of[w]
            S == sync_mappings(Now, The(me.product).id, Products[w])
        IN  /\ me.pc = "mappings"
            /\ WorkerCommit(w, S, "promote", me)

\* sync_product, lines 158-160: the promotion, which the control plane accepts
WorkerPromote ==
    \E w \in Workers :
        LET me == workers.of[w]
            S == Proxy_promote(Proxy_fetch(Now, "promote", The(me.product).id), The(me.product).id, 201)
        IN  /\ me.pc = "promote"
            /\ WorkerCommit(w, S, "done", me)

NextParallel ==
    \/ WorkerProduct
    \/ WorkerApplicationsList
    \/ WorkerApplicationsDelete
    \/ WorkerApplicationsCreate
    \/ WorkerAuth
    \/ WorkerOidcFlows
    \/ WorkerPolicies
    \/ WorkerBackendsList
    \/ WorkerBackendsBackend
    \/ WorkerMappings
    \/ WorkerPromote

SpecParallel == InitParallel /\ [][NextParallel]_vars

-----------------------------------------------------------------------------
(* start_sync_for_one_config with --delete, and Product.delete *)

\* What the operator may type at the prompt
Answers == {"y", "Y", "n", "N", "", "yes"}

\* str.upper()
Upper(s) ==
    CASE s = "y" -> "Y" [] s = "Y" -> "Y" [] s = "n" -> "N" [] s = "N" -> "N"
      [] s = "" -> "" [] s = "yes" -> "YES"

\* BackendUsage.delete: DELETE services/{service_id}/backend_usages/{id}
BackendUsage_delete(S, step, self) ==
    LET S1 == Log(S, Entry(step, "delete", "usage", [id |-> self.id, service_id |-> self.service_id]))
        target == {u \in S.r.usages : u.id = self.id /\ u.service_id = self.service_id}
    IN  IF target = {} THEN Raise(S1, "RemoteError")
        ELSE [S1 EXCEPT !.r.usages = @ \ target]

RECURSIVE DeleteUsagesWithId(_, _, _, _)
\* the loop of Product.delete_backend_usages over the usages it listed
DeleteUsagesWithId(S, step, listed, backend_id) ==
    IF ~Ok(S) \/ listed = <<>> THEN S
    ELSE DeleteUsagesWithId(IF Head(listed).id = backend_id THEN BackendUsage_delete(S, step, Head(listed)) ELSE S,
                            step, Tail(listed), backend_id)

\* Product.delete_backend_usages(client, backend_id): lists the usages of the
\* product again and deletes the one whose id is the argument
Product_delete_backend_usages(S, step, service_id, backend_id) ==
    LET S1 == BackendUsage_list(S, step, service_id)
    IN  DeleteUsagesWithId(S1, step, S1.ret, backend_id)

\* Backend.delete: client.backends.delete.  The control plane refuses to
\* delete a backend that a product still uses.
Backend_delete(S, step, self) ==
    LET S1 == Log(S, Entry(step, "delete", "backend", [id |-> self.id]))
    IN  IF \E u \in S.r.usages : u.backend_id = self.id THEN Raise(S1, "RemoteError")
        ELSE [S1 EXCEPT !.r.backends = {b \in @ : b.id # self.id}]

\* client.services.delete(entity_id): the control plane removes the product
\* with what belongs to it
Services_delete(S, step, entity_id) ==
    LET S1 == Log(S, Entry(step, "delete", "product", [id |-> entity_id]))
    IN  [S1 EXCEPT !.r.products = {p \in @ : p.id # entity_id},
                   !.r.plans = {p \in @ : p.service_id # entity_id},
                   !.r.applications = {a \in @ : a.service_id # entity_id},
                   !.r.usages = {u \in @ : u.service_id # entity_id},
                   !.r.mappings = {m \in @ : m.service_id # entity_id}]

\* Products Alpha and Beta as syncs left them: Alpha with two backends of its
\* own, Beta with one
D1 == Remote({RemoteProduct(3, SysA, <<"Alpha">>, <<"descA">>), RemoteProduct(4, SysB, <<"Beta">>, <<"descB">>)},
             {U1, U2}, {}, {},
             {BackendB1(5, Url(HostOk)),
              RemoteBackend(6, BackendName(Env, <<"b3">>), SystemName(BackendName(Env, <<"b3">>)),
                            <<"descA">>, Url(HostOk)),
              RemoteBackend(7, BackendName(Env, <<"b2">>), SystemName(BackendName(Env, <<"b2">>)),
                            <<"descB">>, Url(HostHyphen))},
             {RemoteUsage(8, 3, 5, <<"/b1">>), RemoteUsage(9, 3, 6, <<"/b3">>), RemoteUsage(10, 4, 7, <<"/b2">>)},
             {}, 11)
\* The same with the second backend of Alpha also mounted on Beta
D0 == [D1 EXCEPT !.usages = @ \cup {RemoteUsage(11, 4, 6, <<"/b3">>)}, !.nextId = 12]

RemotePoolDelete == {R0, R2, R4, D0, D1}

DeleteSteps == {"delete_product", "delete_usages", "delete_usage", "delete_backend", "delete_service"}

InitDelete ==
    /\ config \in {c \in Configs : Validate(c.products) = ""}
    /\ remote \in RemotePoolDelete
    /\ argv \in {[delete |-> TRUE], [delete |-> FALSE]}
    /\ pc = "start"
    /\ run = 1
    /\ pi = 0
    /\ ai = 0
    /\ bi = 0
    /\ accounts = <<>>
    /\ usages = <<>>
    /\ product = {}
    /\ calls = <<>>
    /\ status = Pending
    /\ error = ""
    /\ prev = NoRun
    /\ workers = NoWorkers
    /\ reported = <<>>
    /\ answer = {}

\* A start that takes every answer but a no for a confirmation
StartSync_unless_refused ==
    /\ pc = "start"
    /\ IF argv.delete
       THEN \E response \in Answers :
                /\ answer' = {response}
                /\ IF Upper(response) # "N" THEN pc' = "delete_product" /\ pi' = 1 ELSE pc' = "done" /\ pi' = pi
       ELSE answer' = answer /\ pi' = pi /\ pc' = "sync_config"
    /\ UNCHANGED <<argv, reported, workers, config, remote, run, ai, bi, accounts, usages, product, calls,
                   status, error, prev>>

\* start_sync_for_one_config: with --delete the operator is asked and the
\* products are deleted on "y" or "Y"; without it sync_config runs
StartSync ==
    /\ pc = "start"
    /\ IF argv.delete
       THEN \E response \in Answers :
                /\ answer' = {response}
                /\ IF Upper(response) = "Y" THEN pc' = "delete_product" /\ pi' = 1 ELSE pc' = "done" /\ pi' = pi
       ELSE answer' = answer /\ pi' = pi /\ pc' = "sync_config"
    /\ UNCHANGED <<argv, reported, workers, config, remote, run, ai, bi, accounts, usages, product, calls,
                   status, error, prev>>

\* the loop over config.products: the product is fetched by the system_name
\* derived from its shortName; exit(1) when there is none
DeleteProduct ==
    /\ pc = "delete_product"
    /\ LET S == Product_fetch(St(remote, calls), "delete", SystemName(ProductConfigAt.shortName))
       IN  /\ calls' = S.log
           /\ product' = S.ret
           /\ IF S.ret = {}
              THEN /\ pc' = "exited"
                   /\ error' = "exit(1)"
                   /\ status' = [status EXCEPT ![pi] = "failed"]
              ELSE /\ pc' = "delete_usages"
                   /\ error' = error
                   /\ status' = [status EXCEPT ![pi] = "running"]
    /\ UNCHANGED <<argv, answer, reported, workers, config, remote, run, pi, ai, bi, accounts, usages, prev>>

\* Product.delete: the usages of the product are listed
DeleteUsagesList ==
    /\ pc = "delete_usages"
    /\ LET S == BackendUsage_list(St(remote, calls), "delete", ProductId)
       IN  /\ usages' = S.ret
           /\ Commit(S, IF S.ret = <<>> THEN "delete_service" ELSE "delete_usage")
    /\ bi' = 1
    /\ UNCHANGED <<argv, answer, reported, workers, config, run, pi, ai, accounts, product, prev>>

\* Product.delete, one pass of "Delete backend usages"
DeleteUsage ==
    /\ pc = "delete_usage"
    /\ Commit(Product_delete_backend_usages(St(remote, calls), "delete", ProductId, usages[bi].id),
              IF bi < Len(usages) THEN "delete_usage" ELSE "delete_backend")
    /\ bi' = IF bi < Len(usages) THEN bi + 1 ELSE 1
    /\ UNCHANGED <<argv, answer, reported, workers, config, run, pi, ai, accounts, usages, product, prev>>

\* A pass of "Delete backends" that goes on when the backend is not deleted
DeleteBackend_tolerant ==
    /\ pc = "delete_backend"
    /\ LET S1 == Backend_fetch_by_id(St(remote, calls), "delete", usages[bi].backend_id)
           S2 == IF S1.ret = {} THEN S1 ELSE Backend_delete(S1, "delete", The(S1.ret))
       IN  Commit([S2 EXCEPT !.err = ""], IF bi < Len(usages) THEN "delete_backend" ELSE "delete_service")
    /\ bi' = IF bi < Len(usages) THEN bi + 1 ELSE 1
    /\ UNCHANGED <<argv, answer, reported, workers, config, run, pi, ai, accounts, usages, product, prev>>

\* Product.delete, one pass of "Delete backends": Backend.fetch_by_id, then
\* Backend.delete of what it returned
DeleteBackend ==
    /\ pc = "delete_backend"
    /\ LET S1 == Backend_fetch_by_id(St(remote, calls), "delete", usages[bi].backend_id)
           S2 == IF S1.ret = {} THEN Raise(S1, "AttributeError") ELSE Backend_delete(S1, "delete", The(S1.ret))
       IN  Commit(S2, IF bi < Len(usages) THEN "delete_backend" ELSE "delete_service")
    /\ bi' = IF bi < Len(usages) THEN bi + 1 ELSE 1
    /\ UNCHANGED <<argv, answer, reported, workers, config, run, pi, ai, accounts, usages, product, prev>>

\* Product.delete, "Delete service", and the step of the loop over
\* config.products
DeleteService ==
    /\ pc = "delete_service"
    /\ LET S == Services_delete(St(remote, calls), "delete", ProductId)
       IN  /\ remote' = S.r
           /\ calls' = S.log
    /\ status' = [status EXCEPT ![pi] = "ok"]
    /\ pc' = IF pi < Len(Products) THEN "delete_product" ELSE "done"
    /\ pi' = IF pi < Len(Products) THEN pi + 1 ELSE pi
    /\ product' = {}
    /\ UNCHANGED <<argv, answer, reported, workers, config, run, ai, bi, accounts, usages, error, prev>>

\* The control plane answers the next call of the deletion with an error
DeleteFailure ==
    /\ pc \in DeleteSteps
    /\ calls' = Append(calls, Entry(pc, "error", "response", NoArgs))
    /\ pc' = "failed"
    /\ error' = "RemoteError"
    /\ status' = [status EXCEPT ![pi] = "failed"]
    /\ UNCHANGED <<argv, answer, reported, workers, config, remote, run, pi, ai, bi, accounts, usages, product, prev>>

NextDelete ==
    \/ StartSync
    \/ DeleteProduct
    \/ DeleteUsagesList
    \/ DeleteUsage
    \/ DeleteBackend
    \/ DeleteService
    \/ DeleteFailure

SpecDelete == InitDelete /\ [][NextDelete]_vars

-----------------------------------------------------------------------------
(* Vocabulary of the properties *)

\* The calls the step being taken adds to the log
NewCalls == SubSeq(calls', Len(calls) + 1, Len(calls'))

Count(log, Test(_)) == Len(SelectSeq(log, Test))
Is(e, op, kind) == e.op = op /\ e.kind = kind
IsMutating(e) == e.op \notin Reads \cup {"error"}

\* The previous run synced product i to the end
PrevOk(i) == prev.ran /\ i \in DOMAIN prev.status /\ prev.status[i] = "ok"

\* The entities a reconciler looks up by a stable key before it creates them
KeyedKinds == {"product", "account", "plan", "backend", "usage"}

\* The (method, pattern) pairs the creation pass of sync_mappings asks for
DesiredPairs(product_config) ==
    {<<m.http_method, m.pattern>> : m \in Range(DesiredMappings(product_config, 0))}

\* The name an ApplicationSpec ends up with
EffectiveName(product_config, application_config) ==
    IF application_config.name # None THEN application_config.name
    ELSE DefaultApplicationName(config.environment, SystemName(product_config.shortName),
                                product_config.version)

\* The backend sync_backends is about to reconcile, as the control plane has it
BackendAt ==
    {b \in remote.backends :
        b.system_name = SystemName(BackendName(config.environment, ProductConfigAt.backends[bi].id))}

-----------------------------------------------------------------------------
(* C1  Idempotence *)

\* C1 (as claimed): a second run of sync_product that follows a complete run
\* on the same desired state issues no mutating remote call.
C1_SecondRunIssuesNoMutation ==
    \A k \in DOMAIN calls : PrevOk(calls[k].pi) => ~IsMutating(calls[k])

\* No other product of the desired state derives the system_name of product
\* i, so that no other sync changes its remote product between two of its own
OwnSystemName(i) ==
    \A j \in DOMAIN Products \ {i} :
        SystemName(Products[j].shortName) # SystemName(Products[i].shortName)

\* C1 (amended): such a second run issues no create, update or delete of a
\* product's name and description, an account, an application plan, a backend
\* or a backend usage, when no other product shares the system_name; the
\* other reconcilers apply their state again.
C1_SecondRunCreatesNoKeyedEntity ==
    \A k \in DOMAIN calls :
        PrevOk(calls[k].pi) /\ OwnSystemName(calls[k].pi) /\ IsMutating(calls[k])
            => calls[k].kind \notin KeyedKinds

\* A second run that ran to its end after a complete first run, and mutated.
C1_Witness ==
    /\ run = 2
    /\ pc = "done"
    /\ \A i \in DOMAIN Products : PrevOk(i)
    /\ \E k \in DOMAIN calls : IsMutating(calls[k])

-----------------------------------------------------------------------------
(* C2  Mapping convergence *)

\* C2: sync_mappings never deletes a rule whose (method, pattern) is one of
\* the desired mappings of the product.
C2_DesiredRulesAreNotDeleted ==
    \A k \in DOMAIN calls :
        Is(calls[k], "delete", "mapping") =>
            <<calls[k].args.http_method, calls[k].args.pattern>> \notin DesiredPairs(Products[calls[k].pi])

-----------------------------------------------------------------------------
(* C3  Backend create-or-update *)

\* C3: when the backend of a BackendRef exists already, sync_backends
\* updates it in place and goes on to its BackendUsage, and does not fail
\* (unless the control plane answers with an error).
C3_ExistingBackendIsUpdated ==
    [][(pc = "backend" /\ BackendAt # {} /\ error' # "RemoteError") =>
            /\ pc' # "failed"
            /\ Count(NewCalls, LAMBDA e : Is(e, "update", "backend")) = 1
            /\ Count(NewCalls, LAMBDA e : e.kind = "usage" /\ IsMutating(e)) = 1]_vars

-----------------------------------------------------------------------------
(* C4  Fail-fast pre-flight *)

Pairs(xs) == {<<i, j>> \in (DOMAIN xs) \X (DOMAIN xs) : i < j}

\* The five pre-flight rules of the data model, stated on the desired state
ViolatesPreflight(products) ==
    \/ \E ij \in Pairs(products) : products[ij[1]].shortName = products[ij[2]].shortName
    \/ \E ij \in Pairs(BackendIds(products)) : BackendIds(products)[ij[1]] = BackendIds(products)[ij[2]]
    \/ \E ij \in Pairs(ApplicationNames(products)) :
            ApplicationNames(products)[ij[1]] = ApplicationNames(products)[ij[2]]
    \/ \E i \in DOMAIN products : \E ij \in Pairs(products[i].backends) :
            products[i].backends[ij[1]].path = products[i].backends[ij[2]].path
    \/ \E i \in DOMAIN products : \E j \in DOMAIN products[i].backends :
            ~IsFqdn(Hostname(products[i].backends[j].privateBaseURL))

-----------------------------------------------------------------------------
(* C5  Missing account *)

\* C5: when the account of an ApplicationSpec is not in the account list,
\* the run creates the account and goes on to create the application; it
\* does not fail (unless the control plane answers with an error).
C5_MissingAccountIsHealed ==
    [][(/\ pc = "application"
        /\ \A i \in DOMAIN accounts : accounts[i].username # ProductConfigAt.applications[ai].account
        /\ error' # "RemoteError") =>
            /\ pc' # "failed"
            /\ Count(NewCalls, LAMBDA e : Is(e, "create", "account")) = 1
            /\ Count(NewCalls, LAMBDA e : Is(e, "create", "application")) = 1]_vars

-----------------------------------------------------------------------------
(* C6  Application conflict policy *)

\* The positions in log of the calls of sync_applications for product p that
\* delete (op = "delete") or create (op = "create") the application name
ApplicationCalls(log, p, op, name) ==
    {k \in DOMAIN log :
        /\ log[k].pi = p
        /\ log[k].step = "applications"
        /\ Is(log[k], op, "application")
        /\ log[k].args.name = name}

\* The application names the control plane holds
RemoteApplicationNames == {a.name : a \in remote.applications}

\* sync_applications has run to its end for the product in hand: every
\* ApplicationSpec was created exactly once, after at most one delete of
\* its name.
C6_OneDeleteBeforeOneCreate ==
    pc = "auth" =>
        \A i \in DOMAIN ProductConfigAt.applications :
            LET name == EffectiveName(ProductConfigAt, ProductConfigAt.applications[i])
                deleted == ApplicationCalls(calls, pi, "delete", name)
                created == ApplicationCalls(calls, pi, "create", name)
            IN  /\ Cardinality(created) = 1
                /\ Cardinality(deleted) <= 1
                /\ \A d \in deleted : \A c \in created : d < c

\* The creation step of an ApplicationSpec whose name the control plane
\* holds: one delete of that application, then one create, and no failure
\* of the step's own making.
C6_CollidingNameIsReplaced ==
    LET name == EffectiveName(ProductConfigAt, ProductConfigAt.applications[ai])
        mutations == SelectSeq(NewCalls, LAMBDA e : e.kind = "application" /\ IsMutating(e))
    IN  (pc = "application" /\ name \in RemoteApplicationNames /\ pc' # "failed") =>
            /\ Len(mutations) = 2
            /\ Is(mutations[1], "delete", "application") /\ mutations[1].args.name = name
            /\ Is(mutations[2], "create", "application") /\ mutations[2].args.name = name
            /\ mutations[1].args.id \in {a.id : a \in {x \in remote.applications : x.name = name}}
            /\ name \in {a.name : a \in remote'.applications}

\* The deletion pass deletes an application at most once.
C6_DeletionPassDeletesOnce ==
    pc = "applications" =>
        \A a \in remote.applications :
            Count(NewCalls, LAMBDA e : Is(e, "delete", "application") /\ e.args.id = a.id) <= 1

\* C6: for every ApplicationSpec whose effective name is the name of a remote
\* application, a run of sync_applications that gets to the end issues
\* exactly one delete of that application and then exactly one create, and
\* the name clash is never reported as an error.
C6_ConflictPolicy ==
    /\ [](C6_OneDeleteBeforeOneCreate)
    /\ [][C6_CollidingNameIsReplaced /\ C6_DeletionPassDeletesOnce]_vars

\* sync_applications ran to the end and replaced an application whose name
\* was taken: its delete and its create are both in the log.
C6_Witness ==
    /\ pc = "auth"
    /\ \E i \in DOMAIN ProductConfigAt.applications :
            LET name == EffectiveName(ProductConfigAt, ProductConfigAt.applications[i])
            IN  /\ ApplicationCalls(calls, pi, "delete", name) # {}
                /\ ApplicationCalls(calls, pi, "create", name) # {}

-----------------------------------------------------------------------------
(* C7  Failure isolation across products *)

-----------------------------------------------------------------------------
(* C8  Re-run is the recovery path *)

\* C8: after a run that stopped part-way, a run on the same desired state
\* against a control plane that answers every call fails in no reconciler.
C8_RerunCompletes ==
    (/\ prev.ran
     /\ \E j \in DOMAIN prev.status : prev.status[j] = "failed"
     /\ pc = "failed") => error = "RemoteError"

-----------------------------------------------------------------------------
(* C9  Product tri-state *)

\* The product of the ProductSpec in hand, as the control plane has it
ProductAt == {p \in remote.products : p.system_name = SystemName(ProductConfigAt.shortName)}

\* The product step of sync_product, when it does not fail
C9_ProductStep ==
    LET creates == SelectSeq(NewCalls, LAMBDA e : Is(e, "create", "product"))
        updates == SelectSeq(NewCalls, LAMBDA e : Is(e, "update", "product"))
        others == SelectSeq(NewCalls, LAMBDA e : IsMutating(e) /\ e.kind # "product")
        desired == ProductConfigAt
        existing == The(ProductAt)
    IN  (pc = "product" /\ pc' # "failed") =>
            /\ others = <<>>
            /\ IF ProductAt = {}
               THEN /\ updates = <<>>
                    /\ Len(creates) = 1
                    /\ creates[1].args.name = desired.name
                    /\ creates[1].args.system_name = SystemName(desired.shortName)
                    /\ creates[1].args.description = desired.description
               ELSE IF existing.name # desired.name \/ existing.description # desired.description
               THEN /\ creates = <<>>
                    /\ Len(updates) = 1
                    /\ updates[1].args.id = existing.id
                    /\ updates[1].args.params = [name |-> desired.name, description |-> desired.description]
               ELSE creates = <<>> /\ updates = <<>>

\* No step changes the system_name of a product the control plane holds
C9_SystemNameIsKept ==
    \A p \in remote.products : \A q \in remote'.products : p.id = q.id => p.system_name = q.system_name

\* C9: for a ProductSpec the product step issues exactly one create with
\* name, system_name and description when no product has its system_name;
\* exactly one update of name and description when one has and either field
\* differs; and no product mutation when both are equal.  system_name is
\* never changed.
C9_ProductTriState == [][C9_ProductStep /\ C9_SystemNameIsKept]_vars

\* One run updated a product whose name had changed and created another.
C9_Witness ==
    /\ \E k \in DOMAIN calls : Is(calls[k], "update", "product")
    /\ \E k \in DOMAIN calls : Is(calls[k], "create", "product")

-----------------------------------------------------------------------------
(* C10  Backend fetch-or-update *)

\* C10: when the backend of a BackendRef exists already, sync_backends issues
\* no backend mutation if its description and private endpoint are the
\* desired ones, and exactly one update and no create if they are not
\* (unless the control plane answers with an error).
C10_ExistingBackendUpdatedOnlyOnChange ==
    [][(pc = "backend" /\ BackendAt # {} /\ error' # "RemoteError") =>
            LET existing == The(BackendAt)
                backend_config == ProductConfigAt.backends[bi]
                mutations == SelectSeq(NewCalls, LAMBDA e : e.kind = "backend" /\ IsMutating(e))
            IN  IF /\ existing.description = ProductConfigAt.description
                   /\ existing.private_endpoint = backend_config.privateBaseURL
                THEN mutations = <<>>
                ELSE Len(mutations) = 1 /\ mutations[1].op = "update"]_vars

-----------------------------------------------------------------------------
(* C11  Promotion no-op tolerance *)

\* What Proxy.promote returns or raises, for every answer to the promote call
C11_PromoteOutcome ==
    (pc = "promote") =>
        \A response \in PromoteResponses :
            LET S == Proxy_promote(Proxy_fetch(St(remote, calls), "promote", ProductId), ProductId, response)
            IN  /\ response = 422 => Ok(S)
                /\ (~ResponseOk(response) /\ response # 422) =>
                        S.err = "RemoteError" /\ S.msg = ResponseText(response)

\* What the promote step of sync_product makes of the answer it logged
C11_PromoteStep ==
    (pc = "promote" /\ NewCalls # <<>> /\ NewCalls[Len(NewCalls)].op = "promote") =>
        LET response == NewCalls[Len(NewCalls)].args.status
        IN  /\ response = 422 => pc' \in {"product", "done"} /\ error' = error /\ status'[pi] = "ok"
            /\ (~ResponseOk(response) /\ response # 422) => pc' = "failed" /\ error' = "RemoteError"

\* C11: Proxy.promote returns normally when the promote call is answered
\* with status 422, and raises an error that carries the response body for
\* every other status that is not a success.
C11_PromoteTolerates422 == [](C11_PromoteOutcome) /\ [][C11_PromoteStep]_vars

\* A run ended without error although a promote call was answered with 422.
C11_Witness ==
    /\ pc = "done"
    /\ error = ""
    /\ \E k \in DOMAIN calls : calls[k].op = "promote" /\ calls[k].args.status = 422

-----------------------------------------------------------------------------
(* C12  Pre-flight uniqueness rejection *)

\* All backends of the configuration, with the product that declares them
AllBackends(products) ==
    UNION {{[p |-> i, b |-> j] : j \in DOMAIN products[i].backends} : i \in DOMAIN products}
BackendOf(products, x) == products[x.p].backends[x.b]

SharedShortName(products) ==
    \E i, j \in DOMAIN products : i # j /\ products[i].shortName = products[j].shortName
SharedBackendId(products) ==
    \E x, y \in AllBackends(products) : x # y /\ BackendOf(products, x).id = BackendOf(products, y).id
SharedBackendPath(products) ==
    \E x, y \in AllBackends(products) :
        x # y /\ x.p = y.p /\ BackendOf(products, x).path = BackendOf(products, y).path

\* C12: Config.validate fails for every configuration in which two products
\* share a shortName, two backends of any products share an id, or two
\* backends of one product share a path; two of them are enough.
C12_DuplicatesAreRejected ==
    (SharedShortName(Products) \/ SharedBackendId(Products) \/ SharedBackendPath(Products)) =>
        Validate(Products) \in {"Product short names are not unique", "Backend ids are not unique",
                                "Backend paths are not unique"}

\* A configuration of one product whose two backends share an id, and
\* nothing else, was rejected.
C12_Witness ==
    /\ pc = "aborted"
    /\ Len(Products) = 1
    /\ Len(Products[1].backends) = 2
    /\ SharedBackendId(Products)
    /\ ~SharedBackendPath(Products)

-----------------------------------------------------------------------------
(* C17  FQDN validation *)

\* The authority of the URL up to its port
HostOf(url) ==
    LET colons == {i \in DOMAIN url.netloc : url.netloc[i] = ":"}
        end == IF colons = {} THEN Len(url.netloc)
               ELSE (CHOOSE i \in colons : \A j \in colons : i <= j) - 1
    IN  SubSeq(url.netloc, 1, end)

\* A dot-separated sequence of labels of letters, digits and interior hyphens
WellFormedHost(h) ==
    /\ h # <<>>
    /\ \A i \in DOMAIN h : h[i] \in {"-", "."} \/ h[i] \notin NonAlnum
    /\ h[1] \notin {"-", "."}
    /\ h[Len(h)] \notin {"-", "."}
    /\ \A i \in 1..(Len(h) - 1) :
            /\ h[i] = "." => h[i + 1] \notin {"-", "."}
            /\ h[i + 1] = "." => h[i] \notin {"-", "."}

BadlyHosted(products) ==
    \E x \in AllBackends(products) : ~WellFormedHost(HostOf(BackendOf(products, x).privateBaseURL))

\* C17: Config.validate rejects a configuration for its host names iff some
\* backend's privateBaseURL has a host name, port removed, that is not a
\* dot-separated sequence of labels of letters, digits and interior hyphens;
\* "not a host!" is rejected and "api.example.com:8443" is accepted.
C17_HostNamesAreValidated ==
    /\ \A x \in AllBackends(Products) :
            LET url == BackendOf(Products, x).privateBaseURL
            IN  IsFqdn(Hostname(url)) <=> WellFormedHost(HostOf(url))
    /\ BadlyHosted(Products) => Validate(Products) # ""
    /\ (Validate(Products) = "Backend privateBaseURL does not contain a valid hostname")
            => BadlyHosted(Products)
    /\ ~IsFqdn(Hostname(Url(HostBad)))
    /\ IsFqdn(Hostname(Url(HostOk)))

\* A host name with a port and one with an interior hyphen were accepted
\* in one configuration, which went on to sync.
C17_Witness ==
    /\ pc = "done"
    /\ \E x \in AllBackends(Products) : BackendOf(Products, x).privateBaseURL = Url(HostOk)
    /\ \E x \in AllBackends(Products) : BackendOf(Products, x).privateBaseURL = Url(HostHyphen)

-----------------------------------------------------------------------------
(* C13  Product-first ordering *)

\* A call that mutates something other than the product itself
MutatesBeyondProduct(e) == IsMutating(e) /\ e.kind # "product"

\* The run stopped in the named step
FailedAt(step) == pc = "failed" /\ calls # <<>> /\ calls[Len(calls)].step = step

\* While the product of the ProductSpec in hand is not obtained, or when it
\* could not be obtained, nothing else of that product was mutated.
C13_NothingBeforeTheProduct ==
    (pi >= 1 /\ (pc = "product" \/ FailedAt("product"))) =>
        \A k \in DOMAIN calls : calls[k].pi = pi => ~MutatesBeyondProduct(calls[k])

\* A step that mutates something other than the product holds the product
\* of the ProductSpec in hand, and the control plane knows its id.
C13_MutationsHoldTheProduct ==
    (\E k \in DOMAIN NewCalls : MutatesBeyondProduct(NewCalls[k])) =>
        /\ pc \notin {"main", "sync_config", "product"}
        /\ product # {}
        /\ The(product).system_name = SystemName(ProductConfigAt.shortName)
        /\ \E p \in remote.products : p.id = The(product).id /\ p.system_name = The(product).system_name
        /\ \A k \in DOMAIN NewCalls : NewCalls[k].pi = pi

\* C13: in every run of sync_product no application, account, plan, proxy,
\* OIDC, policy, backend, usage, mapping or promote mutation is issued before
\* the product was fetched or created and has a remote identity; when the
\* product is not obtained none of them is issued.
C13_ProductFirst == [](C13_NothingBeforeTheProduct) /\ [][C13_MutationsHoldTheProduct]_vars

\* The product step created the product, and the application step then
\* created an application for it.
C13_Witness ==
    /\ pc = "auth"
    /\ \E j, k \in DOMAIN calls :
            /\ j < k
            /\ calls[j].pi = pi /\ Is(calls[j], "create", "product")
            /\ calls[k].pi = pi /\ Is(calls[k], "create", "application")

-----------------------------------------------------------------------------
(* C14  An unrecognized authType pre-empts mutation *)

\* C14: when the authType of a product is not one of app_key, app_id_key,
\* oauth and oidc, the run fails before any mutation was applied for that
\* product.
C14_UnknownAuthTypeMutatesNothing ==
    (pi >= 1 /\ pc = "failed" /\ error = "KeyError") =>
        \A k \in DOMAIN calls : calls[k].pi = pi => ~IsMutating(calls[k])

-----------------------------------------------------------------------------
(* C15  No backend pruning *)

Ids(set) == {x.id : x \in set}

\* No step of a sync deletes a backend or a backend usage, asks for such a
\* delete, or leaves the control plane with fewer of them.
C15_NoStepPrunes ==
    /\ Ids(remote.backends) \subseteq Ids(remote'.backends)
    /\ Ids(remote.usages) \subseteq Ids(remote'.usages)
    /\ \A k \in DOMAIN NewCalls :
            ~(NewCalls[k].op = "delete" /\ NewCalls[k].kind \in {"backend", "usage"})

\* C15: a product sync never issues a delete for a backend or a backend
\* usage, also not for those the desired state no longer declares; the
\* remote sets of backends and usages never shrink during a sync.
C15_NoBackendPruning == [][C15_NoStepPrunes]_vars

\* A product that declares no backend was synced to the end, and the
\* backend usage the control plane had for it is still there.
C15_Witness ==
    /\ pc = "done"
    /\ ProductConfigAt.backends = <<>>
    /\ \E u \in remote.usages : u.service_id = ProductId

-----------------------------------------------------------------------------
(* C16 *)

\* The system name of the product, the user of the account, the system name
\* of the plan and of the backend that carry the id, None when none does
SystemNameOf(set, id) ==
    IF \E x \in set : x.id = id THEN (CHOOSE x \in set : x.id = id).system_name ELSE None
UsernameOf(set, id) ==
    IF \E x \in set : x.id = id THEN (CHOOSE x \in set : x.id = id).username ELSE None

\* The remote state up to the ids the control plane hands out: every
\* reference by id is replaced by the name of what it refers to
View(r) ==
    [products |-> {[p EXCEPT !.id = 0] : p \in r.products},
     accounts |-> {[a EXCEPT !.id = 0] : a \in r.accounts},
     plans |-> {[p EXCEPT !.id = 0, !.service_id = SystemNameOf(r.products, @)] : p \in r.plans},
     applications |-> {[a EXCEPT !.id = 0, !.service_id = SystemNameOf(r.products, @),
                                 !.account_id = UsernameOf(r.accounts, @),
                                 !.plan_id = SystemNameOf(r.plans, @)] : a \in r.applications},
     backends |-> {[b EXCEPT !.id = 0] : b \in r.backends},
     usages |-> {[u EXCEPT !.id = 0, !.service_id = SystemNameOf(r.products, @),
                           !.backend_id = SystemNameOf(r.backends, @)] : u \in r.usages},
     mappings |-> {[m EXCEPT !.id = 0, !.service_id = SystemNameOf(r.products, @),
                             !.metric_id = SystemNameOf(r.products, @)] : m \in r.mappings}]

\* The two syncs one after the other, from the remote state the workers
\* started on: what is left, and the exception of each sync
Sequential(first, second) ==
    LET S1 == sync_product(St(workers.start, <<>>), config.environment, accounts, Products[first])
        S2 == sync_product(St(S1.r, <<>>), config.environment, accounts, Products[second])
    IN  [view |-> View(S2.r), err |-> [w \in Workers |-> IF w = first THEN S1.err ELSE S2.err]]

\* Both workers have left sync_product
WorkersFinished == pc = "workers" /\ \A w \in Workers : workers.of[w].pc \in {"done", "failed"}

\* What the parallel run left
Parallel == [view |-> View(remote), err |-> [w \in Workers |-> workers.of[w].err]]

\* C16: when both workers of a validated configuration of two products have
\* finished, the remote state is the one that running the two syncs one
\* after the other leaves, in one order or the other, and a worker has
\* failed only as its sync fails in that sequential run.
C16_ParallelIsSequential ==
    WorkersFinished => Parallel \in {Sequential(1, 2), Sequential(2, 1)}

\* C16, the weaker half alone: a worker fails only if its sync fails in one
\* of the two sequential runs.
C16_NoWorkerFailsBecauseOfTheOther ==
    WorkersFinished =>
        \A w \in Workers :
            workers.of[w].err # "" => \/ Sequential(1, 2).err[w] # ""
                                      \/ Sequential(2, 1).err[w] # ""

-----------------------------------------------------------------------------
(* C18 *)

\* The mapping rules of the product that the control plane holds and the
\* desired union does not name
StaleMappings(r, service_id, product_config) ==
    {m \in r.mappings : /\ m.service_id = service_id
                        /\ <<m.http_method, m.pattern>> \notin DesiredPairs(product_config)}

\* A step of sync_mappings that ran to its end
MappingsSynced == pc = "mappings" /\ pc' = "promote"

C18_StaleRulesGoStep ==
    MappingsSynced => StaleMappings(remote, ProductId, ProductConfigAt) \cap remote'.mappings = {}

\* C18: a sync_mappings that completes has deleted every mapping rule of the
\* product it observed whose (method, pattern) is not in the desired union,
\* whatever the size of the union, the empty union included.
C18_StaleMappingsArePruned == [][C18_StaleRulesGoStep]_vars

\* C18 for the empty desired union alone: every observed rule of the product
\* is deleted.
C18_EmptyUnionStep ==
    (MappingsSynced /\ DesiredPairs(ProductConfigAt) = {}) =>
        \A m \in remote'.mappings : m.service_id # ProductId
C18_EmptyUnionPrunesAll == [][C18_EmptyUnionStep]_vars

-----------------------------------------------------------------------------
(* C19 *)

\* The (method, pattern) pairs of the mappings the creation pass creates, in
\* the order of the creation pass
CreatedPairs(product_config) ==
    [i \in DOMAIN DesiredMappings(product_config, 0) |->
        <<DesiredMappings(product_config, 0)[i].http_method,
          DesiredMappings(product_config, 0)[i].pattern>>]

\* The pattern is the publicBasePath followed by a path and the end anchor
Normalised(pattern, publicBasePath) ==
    /\ Len(pattern) > Len(publicBasePath) + 1
    /\ SubSeq(pattern, 1, Len(publicBasePath)) = publicBasePath
    /\ pattern[Len(pattern)] = "$"

\* sync_mappings has run for the product at hand
MappingsDone == pi >= 1 /\ pc = "promote"

\* C19, first half: the pairs the deletion pass compares the observed rules
\* with are the pairs the creation pass creates.
C19_DeletionUsesCreationPattern ==
    MappingsDone => ActiveMappings(ProductConfigAt) = CreatedPairs(ProductConfigAt)

\* C19, second half: every mapping created, from OpenAPI or from the
\* configuration, carries publicBasePath + path + '$'.
C19_CreatedPatternsAreNormalised ==
    MappingsDone =>
        \A i \in DOMAIN CreatedPairs(ProductConfigAt) :
            Normalised(CreatedPairs(ProductConfigAt)[i][2], ProductConfigAt.api.publicBasePath)

\* C19: every mapping sync_mappings compares in the deletion pass and every
\* mapping it creates carries the same pattern, the product's publicBasePath
\* followed by the path and '$'; the pattern that decides deletion is the
\* pattern used for creation.
C19_UniformPatternNormalisation ==
    C19_DeletionUsesCreationPattern /\ C19_CreatedPatternsAreNormalised

-----------------------------------------------------------------------------
(* C20 *)

\* The mapping rules of the product that carry the pair
RulesOf(r, service_id, pair) ==
    {m \in r.mappings : m.service_id = service_id /\ <<m.http_method, m.pattern>> = pair}

\* The calls of the current run that create a mapping rule with the pair for
\* product p
MappingCreations(log, p, pair) ==
    {k \in DOMAIN log : /\ log[k].pi = p
                        /\ Is(log[k], "create", "mapping")
                        /\ <<log[k].args.http_method, log[k].args.pattern>> = pair}

\* The (method, pattern) pairs the control plane holds for the product
RemotePairs(r, service_id) ==
    {<<m.http_method, m.pattern>> : m \in {x \in r.mappings : x.service_id = service_id}}

\* C20, first half: after sync_mappings no two rules of the product share
\* their (http_method, pattern).
C20_NoTwoRulesShareAPair ==
    MappingsDone =>
        \A pair \in RemotePairs(remote, ProductId) : Cardinality(RulesOf(remote, ProductId, pair)) = 1

\* C20, second half: a run creates a desired mapping at most once.
C20_CreatedAtMostOnce ==
    MappingsDone =>
        \A pair \in DesiredPairs(ProductConfigAt) : Cardinality(MappingCreations(calls, pi, pair)) <= 1

\* C20: after sync_mappings completes, no two mapping rules of the product
\* share the same (http_method, pattern), whatever the desired input, one
\* that names the same pair more than once included, and a desired mapping
\* is created at most once per run.
C20_MappingIdentityIsUnique == C20_NoTwoRulesShareAPair /\ C20_CreatedAtMostOnce

-----------------------------------------------------------------------------
(* C21 *)

\* The names the ApplicationSpecs of the product end up with
EffectiveNames(product_config) ==
    {EffectiveName(product_config, product_config.applications[i]) :
        i \in DOMAIN product_config.applications}

\* The deletion pass of sync_applications ran to its end
DeletionPassDone == pc = "applications" /\ pc' \in {"application", "auth"}

C21_DeletionPassStep ==
    DeletionPassDone =>
        \A a \in remote.applications :
            a.service_id = ProductId =>
                (a \notin remote'.applications <=> a.name \notin EffectiveNames(ProductConfigAt))

\* C21: the deletion pass deletes an application attached to the product
\* iff its name is the effective name (configured, or defaulted when the
\* spec omits it) of none of the product's ApplicationSpecs; an application
\* that carries the defaulted name of a declared spec is kept by the pass.
C21_DeletionComparesEffectiveNames == [][C21_DeletionPassStep]_vars

-----------------------------------------------------------------------------
(* C22 *)

\* The ApplicationSpecs of the desired state, each with its product
AllApplications(products) ==
    UNION {{[p |-> i, a |-> j] : j \in DOMAIN products[i].applications} : i \in DOMAIN products}

\* Two ApplicationSpecs of the desired state end up with the same name
SharedEffectiveName(products) ==
    \E x, y \in AllApplications(products) :
        /\ x # y
        /\ EffectiveName(products[x.p], products[x.p].applications[x.a])
               = EffectiveName(products[y.p], products[y.p].applications[y.a])

\* Config.validate gets as far as its application-name check
ReachesApplicationNameCheck(products) ==
    Validate(products) \notin {"Product short names are not unique", "Backend ids are not unique"}

\* C22: Config.validate rejects on its application-name check iff two
\* ApplicationSpecs of the desired state have the same effective name; two
\* specs of different products that both omit name are not duplicates.
C22_UniquenessOfEffectiveNames ==
    ReachesApplicationNameCheck(Products) =>
        (Validate(Products) = "Application names are not unique" <=> SharedEffectiveName(Products))

\* C22 for specs that all configure their name: the check rejects iff two
\* configured names are equal.
C22_ConfiguredNamesOnly ==
    (/\ ReachesApplicationNameCheck(Products)
     /\ \A x \in AllApplications(Products) : Products[x.p].applications[x.a].name # None) =>
        (Validate(Products) = "Application names are not unique" <=> SharedEffectiveName(Products))

-----------------------------------------------------------------------------
(* C23 *)

\* Two products of the desired state derive the same product system_name
SharedProductSystemName(products) ==
    \E <<i, j>> \in Pairs(products) :
        SystemName(products[i].shortName) = SystemName(products[j].shortName)

\* The system_name Backend.__init__ derives for a BackendRef
BackendSystemName(environment, backend_config) ==
    InitSystemName(None, BackendName(environment, backend_config.id))

\* Two BackendRefs of the desired state derive the same backend system_name
SharedBackendSystemName(environment, products) ==
    \E x, y \in AllBackends(products) :
        /\ x # y
        /\ BackendSystemName(environment, BackendOf(products, x))
               = BackendSystemName(environment, BackendOf(products, y))

\* C23: in a configuration that Config.validate accepts, two distinct
\* products derive distinct product system_names and two distinct
\* BackendRefs derive distinct backend system_names.
C23_DerivedKeysAreCollisionFree ==
    Validate(Products) = "" =>
        /\ ~SharedProductSystemName(Products)
        /\ ~SharedBackendSystemName(config.environment, Products)

\* C23 as the run shows it: after a run that synced every product, each
\* declared product has a remote product of its own.
C23_EachProductHasItsOwnRemoteProduct ==
    (pc = "done" /\ Validate(Products) = "") =>
        Cardinality({p \in remote.products :
                        \E i \in DOMAIN Products : p.system_name = SystemName(Products[i].shortName)})
            = Len(Products)

-----------------------------------------------------------------------------
(* C24 *)

\* The remote applications attached to the product
ApplicationsOf(r, service_id) == {a \in r.applications : a.service_id = service_id}

\* sync_applications has returned for the product at hand
ApplicationsSynced == pi >= 1 /\ pc = "auth"

\* The remote application of the product that the ApplicationSpec asked
\* for: it has the effective name of the spec, its client_secret, and its
\* client_id when the spec gives one
Realises(a, product_config, application_config) ==
    /\ a.name = EffectiveName(product_config, application_config)
    /\ a.client_secret = application_config.client_secret
    /\ application_config.client_id # None => a.client_id = application_config.client_id

-----------------------------------------------------------------------------
(* C25 *)

\* A pass of the loop of sync_backends that no injected failure cut short
BackendPass == pc = "backend" /\ \A k \in DOMAIN NewCalls : NewCalls[k].op # "error"

\* The usage list fetched at the start of sync_backends holds a usage for
\* the backend of the BackendRef at hand
ListedUsage == \E k \in DOMAIN usages : usages[k].backend_id \in Ids(BackendAt)

\* C25, first half: per declared BackendRef exactly one update of the usage
\* when the list fetched once holds a usage for the backend, exactly one
\* create of a usage otherwise.
C25_OneUsageCallStep ==
    BackendPass =>
        IF ListedUsage
        THEN /\ Count(NewCalls, LAMBDA e : Is(e, "update", "usage")) = 1
             /\ Count(NewCalls, LAMBDA e : Is(e, "create", "usage")) = 0
        ELSE /\ Count(NewCalls, LAMBDA e : Is(e, "create", "usage")) = 1
             /\ Count(NewCalls, LAMBDA e : Is(e, "update", "usage")) = 0

\* The usages of the product for the backend the BackendRef derives
UsagesFor(r, service_id, environment, backend_config) ==
    {u \in r.usages :
        /\ u.service_id = service_id
        /\ \E b \in r.backends : /\ b.id = u.backend_id
                                 /\ b.system_name = BackendSystemName(environment, backend_config)}

\* sync_backends has returned for the product at hand
BackendsSynced == pi >= 1 /\ pc = "mappings"

\* C25, second half: after a successful sync_backends every declared backend
\* has exactly one usage on the product, mounted at the desired path.
C25_OneUsagePerBackend ==
    BackendsSynced =>
        \A j \in DOMAIN ProductConfigAt.backends :
            LET mine == UsagesFor(remote, ProductId, config.environment, ProductConfigAt.backends[j])
            IN  Cardinality(mine) = 1 /\ \A u \in mine : u.path = ProductConfigAt.backends[j].path

\* C25: one usage per (product, backend): exactly one update or one create
\* per declared BackendRef, decided on the list fetched once, and after a
\* successful sync_backends one usage per declared backend at its path.
C25_OneUsagePerProductAndBackend == [](C25_OneUsagePerBackend) /\ [][C25_OneUsageCallStep]_vars

-----------------------------------------------------------------------------
(* C26 *)

\* The usages of the product at hand whose backend the configuration of the
\* product does not declare
StaleUsages ==
    {u \in remote.usages :
        /\ u.service_id = ProductId
        /\ \A j \in DOMAIN ProductConfigAt.backends :
               u \notin UsagesFor(remote, ProductId, config.environment, ProductConfigAt.backends[j])}

-----------------------------------------------------------------------------
(* C27 *)

\* The reconcilers sync_product runs for the product between the product
\* step and the promotion, in their order
ReconcilersOf(product_config) ==
    <<"applications", "auth">>
    \o (IF HasOidcFlows(product_config) THEN <<"oidc">> ELSE <<>>)
    \o <<"policies", "backends", "mappings">>

\* The calls of the log that product p issued
CallsOf(log, p) == SelectSeq(log, LAMBDA e : e.pi = p)

\* The promote call of product p is in the log
Promoted(log, p) == \E k \in DOMAIN log : log[k].pi = p /\ Is(log[k], "promote", "proxy_config")

\* C27, the order: a product whose log holds a call of the promotion has
\* calls of every reconciler, none of them cut short, all before the
\* promotion.
C27_PromotionComesLast ==
    \A p \in DOMAIN Products :
        LET mine == CallsOf(calls, p)
        IN  (\E k \in DOMAIN mine : mine[k].step = "promote") =>
                /\ \A i \in DOMAIN ReconcilersOf(Products[p]) :
                       \E k \in DOMAIN mine : mine[k].step = ReconcilersOf(Products[p])[i]
                /\ \A k, l \in DOMAIN mine :
                       (mine[k].step = "promote" /\ mine[l].step # "promote") => l < k
                /\ \A k \in DOMAIN mine : mine[k].step # "promote" => mine[k].op # "error"

\* C27, the failure: a run that a reconciler ended has issued no promote
\* call for the product.
C27_NoPromotionAfterFailure ==
    (pi >= 1 /\ pc = "failed" /\ ~FailedAt("promote")) => ~Promoted(calls, pi)

\* C27, the promotion itself: a fetch of the proxy, the update that sends
\* the proxy its own credentials_location and changes nothing, the fetch
\* the update ends with, the fetch of the latest sandbox configuration and
\* the promote of exactly that version to production.
C27_PromotionStep ==
    (pc = "promote" /\ \A k \in DOMAIN NewCalls : NewCalls[k].op # "error") =>
        LET latest == Proxy_fetch_latest_configuration(St(remote, <<>>), "promote", ProductId, "sandbox")
        IN  /\ [k \in DOMAIN NewCalls |-> <<NewCalls[k].op, NewCalls[k].kind>>]
                  = << <<"fetch", "proxy">>, <<"update", "proxy">>, <<"fetch", "proxy">>,
                       <<"fetch", "proxy_config">>, <<"promote", "proxy_config">> >>
            /\ NewCalls[2].args.params
                  = [credentials_location |-> The(ProductAt).proxy.credentials_location]
            /\ remote' = remote
            /\ NewCalls[4].args.environment = "sandbox"
            /\ NewCalls[5].args.version = The(latest.ret).version
            /\ NewCalls[5].args.to = "production"

\* C27: the promotion is issued only after the application, auth, OIDC,
\* policy, backend and mapping reconcilers of the product have completed
\* without error; it is a no-op proxy update, a fetch of the latest sandbox
\* configuration and a promote of exactly that version to production, in
\* this order; a product one of whose reconcilers failed is not promoted.
C27_PromotionSequence ==
    /\ [](C27_PromotionComesLast /\ C27_NoPromotionAfterFailure)
    /\ [][C27_PromotionStep]_vars

\* A product with OIDC flows, a backend and a mapping has been promoted at
\* the end of a run.
C27_Witness ==
    /\ pc = "done"
    /\ Promoted(calls, pi)
    /\ HasOidcFlows(ProductConfigAt)
    /\ ProductConfigAt.backends # <<>>
    /\ calls[Len(calls)].args.status = 201

-----------------------------------------------------------------------------
(* C28 *)

\* The four flow flags the configuration asks for: the configured value, and
\* false for a flag it does not set
DesiredFlows(product_config) ==
    [k \in FlowKeys |-> IF product_config.api.oidcFlows.flags[k] # "unset"
                        THEN product_config.api.oidcFlows.flags[k] ELSE "false"]

\* The flow flags the control plane holds for the product
RemoteFlows(r, service_id) == The({p \in r.products : p.id = service_id}).oidc

\* sync_product has gone past its OIDC step for the product at hand
OidcStepPassed == pi >= 1 /\ pc = "policies"

\* C28: whenever oidcFlows is present in the configuration of the product,
\* with none of its flags set as well, the sync has set the four remote flow
\* flags to the configured value, or to false for a flag that is not set: no
\* omitted flag keeps a remote value of true.
C28_OidcFlowsAreReplaced ==
    (OidcStepPassed /\ ProductConfigAt.api.oidcFlows.present) =>
        RemoteFlows(remote, ProductId) = DesiredFlows(ProductConfigAt)

\* C28 for an oidcFlows that sets at least one flag
C28_NonEmptyFlowsAreReplaced ==
    (OidcStepPassed /\ HasOidcFlows(ProductConfigAt)) =>
        RemoteFlows(remote, ProductId) = DesiredFlows(ProductConfigAt)

-----------------------------------------------------------------------------
(* C29 *)

\* The backend_version the control plane knows each authentication type by
BackendVersionOf(authType) ==
    CASE authType = "app_key" -> "1"
      [] authType = "app_id_key" -> "2"
      [] authType = "oauth" -> "oauth"
      [] authType = "oidc" -> "oidc"

\* The authentication step of a product whose authType is one of the four,
\* not cut short by an injected failure
AuthPass ==
    /\ pc = "auth"
    /\ ProductConfigAt.api.authType \in {"app_key", "app_id_key", "oauth", "oidc"}
    /\ \A k \in DOMAIN NewCalls : NewCalls[k].op # "error"

\* The proxy fields of the product at hand
ProxyOf(r, service_id) == The({p \in r.products : p.id = service_id}).proxy

\* C29: Proxy.update sends the backend_version 1, 2, oauth or oidc for
\* app_key, app_id_key, oauth or oidc, and sends it before it patches the
\* other proxy fields; when the backend_version update fails the other
\* fields are not patched.
C29_AuthStep ==
    AuthPass =>
        LET mutations == SelectSeq(NewCalls, IsMutating)
            expected == BackendVersionOf(ProductConfigAt.api.authType)
        IN  /\ mutations # <<>>
            /\ Is(mutations[1], "update", "backend_version")
            /\ mutations[1].args.backend_version = expected
            /\ IF pc' = "failed"
               THEN /\ Len(mutations) = 1
                    /\ ProxyOf(remote', ProductId) = ProxyOf(remote, ProductId)
               ELSE /\ Len(mutations) = 2
                    /\ Is(mutations[2], "update", "proxy")
                    /\ The({p \in remote'.products : p.id = ProductId}).backend_version = expected
                    /\ ProxyOf(remote', ProductId).credentials_location
                           = ProductConfigAt.api.credentialsLocation
C29_AuthenticationModeFirst == [][C29_AuthStep]_vars

\* The control plane refused the backend_version update of a product: the
\* run has ended on that call.
C29_Witness ==
    /\ pi >= 1
    /\ pc = "failed"
    /\ error = "RemoteError"
    /\ calls # <<>>
    /\ Is(calls[Len(calls)], "update", "backend_version")
    /\ calls[Len(calls)].args.backend_version = "oidc"

-----------------------------------------------------------------------------
(* C30 *)

\* The system_name ApplicationPlan.__init__ derives for the plan of the
\* product being synced
DerivedPlanSystemName ==
    InitSystemName(None, ApplicationPlanName(config.environment, SystemName(ProductConfigAt.shortName),
                                             ProductConfigAt.version))

PlansNamed(r, service_id, system_name) ==
    {p \in r.plans : p.service_id = service_id /\ p.system_name = system_name}

\* A pass of the second loop of sync_applications that reached
\* ApplicationPlan.create
PlanPass ==
    /\ pc = "application"
    /\ \E k \in DOMAIN NewCalls : Is(NewCalls[k], "list", "plan")
    /\ \A k \in DOMAIN NewCalls : NewCalls[k].op # "error"

IsPlanMutation(e) == e.kind = "plan" /\ IsMutating(e)

\* With a plan of the derived system_name on the product the pass sends no
\* mutating plan call, leaves the plans alone and hands the id of that plan to
\* the application it creates; without one it sends exactly one create, which
\* adds one plan of that system_name to the product.
C30_PlanStep ==
    PlanPass =>
        LET existing == PlansNamed(remote, ProductId, DerivedPlanSystemName)
            mutations == SelectSeq(NewCalls, IsPlanMutation)
            created == SelectSeq(NewCalls, LAMBDA e : Is(e, "create", "application"))
        IN  IF existing # {}
            THEN /\ mutations = <<>>
                 /\ remote'.plans = remote.plans
                 /\ \A k \in DOMAIN created : created[k].args.plan_id = The(existing).id
            ELSE /\ Len(mutations) = 1
                 /\ Is(mutations[1], "create", "plan")
                 /\ mutations[1].args.service_id = ProductId
                 /\ mutations[1].args.system_name = DerivedPlanSystemName
                 /\ Cardinality(remote'.plans \ remote.plans) = 1
                 /\ remote.plans \subseteq remote'.plans
                 /\ \A k \in DOMAIN created :
                        created[k].args.plan_id = The(PlansNamed(remote', ProductId, DerivedPlanSystemName)).id

\* No product has two plans of one system_name
OnePlanPerSystemName ==
    \A p, q \in remote.plans : p.service_id = q.service_id /\ p.system_name = q.system_name => p = q

\* The only mutating plan call of a sync is a create
PlansOnlyCreated ==
    \A k \in DOMAIN calls : IsPlanMutation(calls[k]) => calls[k].op = "create"

\* No step of a sync removes or changes a plan
PlansKept == remote.plans \subseteq remote'.plans

\* C30: ApplicationPlan.create sends no mutating call and returns the existing
\* plan when the product has a plan of the derived system_name, and sends
\* exactly one create otherwise; after any sequence of syncs a product has at
\* most one plan per system_name, and no sync updates or deletes a plan.
C30_PlanIsFetchOrCreate ==
    /\ [](OnePlanPerSystemName /\ PlansOnlyCreated)
    /\ [][C30_PlanStep /\ PlansKept]_vars

\* A second run found the plan the first run created: the pass listed the
\* plans, created the application and sent no plan create
C30_Witness ==
    /\ prev.ran
    /\ ApplicationsSynced
    /\ ProductConfigAt.applications # <<>>
    /\ PlansNamed(remote, ProductId, DerivedPlanSystemName) # {}
    /\ \E k \in DOMAIN calls : calls[k].pi = pi /\ Is(calls[k], "list", "plan")
    /\ \E k \in DOMAIN calls : calls[k].pi = pi /\ Is(calls[k], "create", "application")
    /\ \A k \in DOMAIN calls : ~Is(calls[k], "create", "plan")

-----------------------------------------------------------------------------
(* C31 *)

\* The list sync_policies pushes: '[]' without a policies file, the loaded
\* document otherwise
PushedChain(product_config) ==
    IF product_config.policiesPath.path = None THEN <<>> ELSE product_config.policiesPath.doc

PolicyChainOf(r, service_id) == The({p \in r.products : p.id = service_id}).policies

IsPolicyUpdate(e) == Is(e, "update", "policies")

\* A policies step that no injected failure replaced
PoliciesPass == pc = "policies" /\ \A k \in DOMAIN NewCalls : NewCalls[k].op # "error"

\* The step sends one mutating call, the update of the chain of the product
\* with the pushed list; afterwards the remote chain is that list and no
\* element of the previous chain outside the list is left.
C31_PoliciesStep ==
    PoliciesPass =>
        LET mutations == SelectSeq(NewCalls, IsMutating)
            previous == PolicyChainOf(remote, ProductId)
            pushed == PushedChain(ProductConfigAt)
        IN  /\ Len(mutations) = 1
            /\ IsPolicyUpdate(mutations[1])
            /\ mutations[1].args.service_id = ProductId
            /\ mutations[1].args.chain = pushed
            /\ PolicyChainOf(remote', ProductId) = pushed
            /\ Range(PolicyChainOf(remote', ProductId)) \cap (Range(previous) \ Range(pushed)) = {}

\* The policy-chain updates the sync of product i has sent in this run
PolicyUpdatesOf(i) == {k \in DOMAIN calls : calls[k].pi = i /\ IsPolicyUpdate(calls[k])}

\* A product sync sends at most one policy-chain update, and exactly one
\* once it is past the policies step
OnePolicyUpdatePerSync ==
    \A i \in DOMAIN Products :
        /\ Cardinality(PolicyUpdatesOf(i)) <= 1
        /\ status[i] = "ok" => Cardinality(PolicyUpdatesOf(i)) = 1

\* C31: sync_policies sends exactly one policy-chain update per product sync,
\* with the empty list when no policy file is configured and the whole loaded
\* array otherwise; after it the remote chain equals the pushed list and holds
\* no element of the previous chain that is not in that list.
C31_PolicyChainIsReplaced ==
    /\ []OnePolicyUpdatePerSync
    /\ [][C31_PoliciesStep]_vars

\* A product without a policies file has had the default chain of its remote
\* product replaced by the empty list
C31_Witness ==
    /\ pi >= 1
    /\ pc = "backends"
    /\ ProductConfigAt.policiesPath.path = None
    /\ PolicyChainOf(remote, ProductId) = <<>>
    /\ calls # <<>>
    /\ IsPolicyUpdate(calls[Len(calls)])
    /\ calls[Len(calls)].args.chain = <<>>

-----------------------------------------------------------------------------
(* C32 *)

\* The values that occur more than once in a collection
OccurringMoreThanOnce(xs) ==
    {xs[i] : i \in {k \in DOMAIN xs : \E j \in DOMAIN xs : j # k /\ xs[j] = xs[k]}}

\* The collection the failed uniqueness check of Config.validate looked at
CheckedCollection(products) ==
    CASE Validate(products) = "Product short names are not unique"
           -> [i \in DOMAIN products |-> products[i].shortName]
      [] Validate(products) = "Backend ids are not unique" -> BackendIds(products)
      [] Validate(products) = "Application names are not unique" -> ApplicationNames(products)
      [] Validate(products) = "Backend paths are not unique"
           -> BackendPaths(products[CHOOSE i \in DOMAIN products :
                                        /\ OccurringMoreThanOnce(BackendPaths(products[i])) # {}
                                        /\ \A j \in 1..(i - 1) :
                                               OccurringMoreThanOnce(BackendPaths(products[j])) = {}])

UniquenessMessages ==
    {"Product short names are not unique", "Backend ids are not unique",
     "Application names are not unique", "Backend paths are not unique"}

\* Config.validate has refused the configuration on a uniqueness check
UniquenessViolated == pc = "aborted" /\ Validate(Products) \in UniquenessMessages

\* C32: when a uniqueness check of Config.validate fails, the duplicates it
\* reports are exactly the values that occur more than once in the checked
\* collection: every such value, and no value that occurs once.
C32_AllDuplicatesReported ==
    UniquenessViolated => Range(reported) = OccurringMoreThanOnce(CheckedCollection(Products))

\* A refused configuration with two duplicated values and the report of both
C32_Witness ==
    /\ UniquenessViolated
    /\ Cardinality(OccurringMoreThanOnce(CheckedCollection(Products))) = 2
    /\ Len(reported) = 2

\* A refused configuration whose checked collection also holds a value that
\* occurs once
C32_WitnessSingleValue ==
    /\ UniquenessViolated
    /\ Range(CheckedCollection(Products)) # OccurringMoreThanOnce(CheckedCollection(Products))

-----------------------------------------------------------------------------
(* C33 *)

\* C33: the remote state starts with at most one product per system_name,
\* and after any sequence of sequential sync_product runs it still has at
\* most one product per system_name.
C33_OneProductPerSystemName ==
    \A p, q \in remote.products : p.system_name = q.system_name => p = q

\* A second run has looked up both products a first run created and has
\* created none
C33_Witness ==
    /\ prev.ran
    /\ pi = 2
    /\ pc = "applications"
    /\ Cardinality(remote.products) = 2
    /\ Cardinality({k \in DOMAIN calls : Is(calls[k], "list", "product")}) >= 2
    /\ \A k \in DOMAIN calls : ~Is(calls[k], "create", "product")

-----------------------------------------------------------------------------
(* C34 *)

IsAccountMutation(e) == e.kind = "account" /\ IsMutating(e)

\* The only account mutation a sync has sent is a create
AccountsOnlyCreated ==
    \A k \in DOMAIN calls : IsAccountMutation(calls[k]) => calls[k].op = "create"

\* Every account there was before the step is there, unchanged, after it
AccountsKept == remote.accounts \subseteq remote'.accounts

\* C34: no step of a product sync updates or deletes a remote account; the
\* only account mutation a sync sends is a create, so every account present
\* before a sync is present and unchanged after it.
C34_AccountsAreAppendOnly ==
    /\ []AccountsOnlyCreated
    /\ [][AccountsKept]_vars

\* A sync has created an account next to the one that was there before
C34_Witness ==
    /\ \E k \in DOMAIN calls : Is(calls[k], "create", "account")
    /\ \E a \in remote.accounts :
           \A k \in DOMAIN calls : Is(calls[k], "create", "account") => calls[k].args.username # a.username

-----------------------------------------------------------------------------
(* C35 *)

\* The applications attached to another product than the one being synced
ApplicationsOfOthers(r, service_id) == {a \in r.applications : a.service_id # service_id}

\* A step of sync_applications: its deletion pass or one pass of its
\* creation loop
ApplicationsStep == pi >= 1 /\ pc \in {"applications", "application"} /\ product # {}

\* C35: sync_applications for a product never deletes an application that is
\* attached to a different product, neither in its deletion pass nor through
\* the delete-then-recreate of Application.create, even when an application
\* of another product has the name of one of its desired applications.
C35_ApplicationsOfOtherProductsAreKept ==
    [][ApplicationsStep => ApplicationsOfOthers(remote, ProductId) \subseteq remote'.applications]_vars

-----------------------------------------------------------------------------
(* C36 *)

\* The positions in the log of the deletions Product.delete sent for the
\* product at index i of the configuration
DeletionsOf(i, kind) == {k \in DOMAIN calls : calls[k].pi = i /\ Is(calls[k], "delete", kind)}

\* The usages the control plane holds for a product
UsagesOfProduct(r, service_id) == {u \in r.usages : u.service_id = service_id}

\* The backends the usages listed by Product.delete referred to and the
\* control plane still holds
ReferencedBackendsLeft == {b \in remote.backends : \E j \in DOMAIN usages : usages[j].backend_id = b.id}

\* In the log of a product every usage deletion comes before every backend
\* deletion, and the deletion of the product after both
DeletionsInOrder ==
    \A i \in DOMAIN Products :
        /\ \A u \in DeletionsOf(i, "usage") : \A b \in DeletionsOf(i, "backend") : u < b
        /\ \A u \in DeletionsOf(i, "usage") \cup DeletionsOf(i, "backend") :
               \A p \in DeletionsOf(i, "product") : u < p

\* C36: Product.delete deletes every backend usage of the product before it
\* deletes any of the backends those usages referenced, and deletes the
\* product only after all of those backends are deleted; when a usage or
\* backend deletion fails the product is not deleted.
C36_DeleteOrdering ==
    /\ DeletionsInOrder
    /\ pc = "delete_backend" => UsagesOfProduct(remote, ProductId) = {}
    /\ pc = "delete_service" => UsagesOfProduct(remote, ProductId) = {} /\ ReferencedBackendsLeft = {}
    /\ \A i \in DOMAIN Products :
           DeletionsOf(i, "product") # {} =>
               /\ Cardinality(DeletionsOf(i, "product")) = 1
               /\ Cardinality(DeletionsOf(i, "usage")) = Cardinality(DeletionsOf(i, "backend"))
    /\ pc = "failed" /\ product # {} =>
           /\ product \subseteq remote.products
           /\ DeletionsOf(pi, "product") = {}

\* A product with two usages has been deleted: two usage deletions, two
\* backend deletions, then the product
C36_Witness ==
    /\ argv.delete
    /\ \E i \in DOMAIN Products :
           /\ Cardinality(DeletionsOf(i, "usage")) = 2
           /\ Cardinality(DeletionsOf(i, "backend")) = 2
           /\ DeletionsOf(i, "product") # {}

\* The control plane has refused the deletion of a backend another product
\* uses: the usages of the product are gone and the product is still there
C36_WitnessRefused ==
    /\ pc = "failed"
    /\ error = "RemoteError"
    /\ product \subseteq remote.products
    /\ product # {}
    /\ calls # <<>>
    /\ Is(calls[Len(calls)], "delete", "backend")
    /\ DeletionsOf(pi, "usage") # {}

-----------------------------------------------------------------------------
(* C37 *)

\* The operator has typed y or Y at the prompt
Confirmed == answer \subseteq {"y", "Y"} /\ answer # {}

\* No call of the run belongs to a reconciler, and sync_config is not entered
NoReconciliation ==
    /\ pc # "sync_config"
    /\ \A k \in DOMAIN calls : calls[k].step \in {"delete"} \cup DeleteSteps

\* The products are deleted in the order of their declaration
DeletedInDeclarationOrder ==
    \A k, l \in DOMAIN calls :
        k < l /\ Is(calls[k], "delete", "product") /\ Is(calls[l], "delete", "product")
            => calls[k].pi < calls[l].pi

\* The run has ended at the end of the list: every declared product was
\* found and deleted
AllDeleted ==
    \A i \in DOMAIN Products :
        /\ Cardinality(DeletionsOf(i, "product")) = 1
        /\ \A p \in remote.products : p.system_name # SystemName(Products[i].shortName)

\* The run has ended with exit(1) at the first product that was not found:
\* the products before it are deleted, no call was sent for a later one
StoppedAtMissingProduct ==
    /\ error = "exit(1)"
    /\ \A p \in remote.products : p.system_name # SystemName(Products[pi].shortName)
    /\ \A i \in 1..(pi - 1) : Cardinality(DeletionsOf(i, "product")) = 1
    /\ \A k \in DOMAIN calls : calls[k].pi <= pi
    /\ DeletionsOf(pi, "product") = {}
    /\ calls # <<>>
    /\ Is(calls[Len(calls)], "list", "product")

\* C37: with the delete flag no remote call is sent unless the operator
\* answers y or Y, and sync_config is not run whatever the answer; after the
\* confirmation the declared products are deleted in the order of their
\* declaration, and the first product that is not found remotely ends the run
\* with exit status 1 and leaves the later products undeleted.
C37_DeleteModeIsGated ==
    argv.delete =>
        /\ ~Confirmed => calls = <<>> /\ pc \in {"start", "done"}
        /\ NoReconciliation
        /\ DeletedInDeclarationOrder
        /\ pc = "done" /\ Confirmed => AllDeleted
        /\ pc = "exited" => Confirmed /\ StoppedAtMissingProduct

\* After the confirmation the first declared product was deleted and the
\* second was not found: the run has ended with exit(1)
C37_Witness ==
    /\ argv.delete
    /\ Confirmed
    /\ pc = "exited"
    /\ pi = 2
    /\ DeletionsOf(1, "product") # {}

\* The operator has answered something else than y or Y
C37_WitnessRefused == argv.delete /\ pc = "done" /\ answer # {} /\ ~Confirmed /\ remote.products # {}

\* Without the delete flag the same entry point goes on to sync_config
C37_WitnessSync == ~argv.delete /\ pc = "sync_config"

====
